---- MODULE Spec2Model ----
(***************************************************************************)
(* Persona search and ranking engine (bulk0/koridor4ik).                   *)
(*                                                                         *)
(*   bot/services/persona_search.py  TTLCache, PersonaSearchService        *)
(*   bot/services/async_llm.py       AsyncLLMClient (semaphore + timeout)  *)
(*   bot/handlers/nl_search.py       nl_query                              *)
(*   chat/talk.py                    search_personas_advanced,             *)
(*                                   fts_sanitize_query, llm_rerank,       *)
(*                                   search_by_description_with_fallback   *)
(*                                                                         *)
(* Each component has its own specification over its own variables; the    *)
(* variables of the other components keep their initial values.            *)
(***************************************************************************)
EXTENDS Integers, Sequences, FiniteSets, TLC

VARIABLES
    cache,      \* TTLCache._store: key -> [expire_at, value]
    now,        \* the reading of time.time()
    lastOp,     \* the last TTLCache call and what it returned
    gSt,        \* AsyncLLMClient.chat: where each call stands
    gThread,    \* the calls whose upstream request is executing in a worker thread
    permits,    \* AsyncLLMClient._semaphore: free permits
    hPc,        \* nl_query: where the handler of each message stands
    hFts,       \* nl_query: what lexical retrieval gave for the message's query
    hLeft,      \* nl_query: scoring calls of the current ranking not yet issued
    hPermits,   \* nl_query: free permits of the AsyncLLMClient the handler built
    upstream,   \* upstream requests in flight: [msg, kind, idx, sem, timed]
    ftsQuery,   \* fts_candidates: the raw query text, a sequence of characters
    ftsSafe,    \* fts_candidates: the index query built from it
    ftsDone,    \* fts_candidates: whether it has returned
    ftsQueried, \* fts_candidates: whether the profile store was queried
    ftsStore,   \* fts_candidates: the profile store it reads
    ftsRows,    \* fts_candidates: the candidates it returned
    ftsRaised,  \* fts_candidates: whether the store rejected the query
    tgStore,    \* persona_tags: the (category, value) pairs of each profile
    tgCrit,     \* search_personas_advanced: include_all, include_any, exclude, limit
    tgDone,     \* search_personas_advanced: whether it has returned
    tgResult,   \* search_personas_advanced: the rows returned
    rkInput,    \* the ranker's candidates (profile ids), in the order given
    rkReply,    \* what the scoring call of each candidate comes to, by position
    rkTopK,     \* the ranker's top_k
    rkDone,     \* whether the ranker has ended
    rkScored,   \* the ranker's list of (score, candidate) after the sort
    rkOutput,   \* the list the ranker returned
    rkRaised,    \* whether the ranker raised instead of returning
    svStore,    \* the profile store: the tags and the indexed words of each profile
    svCache,    \* PersonaSearchService._cache: key -> [expire_at, value]
    svNow,      \* the reading of time.time(), in seconds
    svCalls,    \* description searches made on the service so far
    svFirst,    \* the first description search that returned: arguments, time, result
    svLast,      \* the last description search: arguments and what came of it
    mpStore,    \* the mapper: the profile store the taxonomy is read from
    mpReply,    \* the mapper: what the mapping call comes to
    mpDone,     \* the mapper: whether it has ended
    mpRaised,   \* the mapper: whether it raised instead of returning
    mpOut,       \* the mapper: the mapping it returned
    slPersonas, \* choose_text_candidates: the candidate list shown, (profile id, title)
    slText,     \* choose_text_candidates: the text of the reply
    slState,    \* choose_text_candidates: the dialog state
    slChosen,   \* choose_text_candidates: the stored 'chosen' list
    slDone,     \* choose_text_candidates: whether the handler has ended
    slRaised,   \* choose_text_candidates: whether it raised
    slFinal,     \* choose_text_candidates: the selection it made
    dgState,    \* the conversation: the dialog state (FSMContext state)
    dgNl,       \* the conversation: data['nl_personas']
    dgFl,       \* the conversation: data['fl_personas']
    dgPreview,  \* the conversation: data['nl_preview']
    dgSelected, \* the conversation: data['cand_selected']
    dgPage,     \* the conversation: data['cand_page']
    dgChosen,   \* the conversation: data['chosen']
    dgLast,      \* the conversation: the list the most recent search returned
    btInput,    \* _rerank_async: the candidates of the batch (profile ids)
    btTopK,     \* _rerank_async: top_k
    btCall,     \* _rerank_async: where the score coroutine of each candidate stands
    btReply,    \* _rerank_async: what each finished scoring call came to
    btPermits,  \* _rerank_async: free permits of the client's semaphore
    btPc,       \* search_by_description_fast: where step 3 stands
    btScored,   \* _rerank_async: results after the sort
    btRanked,   \* _rerank_async: the list it returned
    btCacheSet, \* search_by_description_fast: whether the cache write was made
    btCached,   \* search_by_description_fast: the list written to the cache
    btReturned,  \* search_by_description_fast: the list returned
    nqStore,    \* nl_query: the profile store
    nqText,     \* nl_query: message.text
    nqPc,       \* nl_query: where the handler stands
    nqCache,    \* nl_query: _search._cache
    nqEmptied,  \* nl_query: whether the hard filter of the fast search emptied a non-empty candidate set
    nqPersonas, \* nl_query: personas
    nqShown,     \* nl_query: the profiles presented to the user
    lkStore,    \* TTLCache._store, step by step
    lkOwner,    \* TTLCache._lock: the task that holds it, 0 when free
    lkPc,       \* where each task stands in its search
    lkKey,      \* the cache key of each task's search
    lkEntry,    \* get: the entry each task read
    lkNow,      \* the reading of time.time()
    lkLost,      \* whether a pop removed an entry other than the one whose expiry was checked
    lvPc,       \* search_by_description_fast: where the current search stands
    lvRound,    \* searches started so far
    lvMine,     \* the scoring call observed: where it stands in chat
    lvOthers,   \* the other scoring calls of the search: how many stand at each place
    lvPermits,  \* AsyncLLMClient._semaphore of the current search: free permits
    lvStale,     \* worker threads still executing requests of earlier searches
    ihQuery,    \* _infer_hard_filters: query
    ihDone,     \* _infer_hard_filters: whether it has returned
    ihRes,       \* _infer_hard_filters: res, category -> values
    kyCall,     \* a cached call: operation, query, k_fts, top_k
    kyDone,     \* whether the call has built its key
    kyKey       \* the call's cache key, a string

cacheVars == <<cache, now, lastOp>>

gateVars == <<gSt, gThread, permits>>

handlerVars == <<hPc, hFts, hLeft, hPermits, upstream>>

ftsVars == <<ftsQuery, ftsSafe, ftsQueried, ftsDone, ftsStore, ftsRows, ftsRaised>>

tagVars == <<tgStore, tgCrit, tgResult, tgDone>>

rankVars == <<rkInput, rkReply, rkTopK, rkScored, rkOutput, rkRaised, rkDone>>

searchVars == <<svStore, svCache, svNow, svCalls, svFirst, svLast>>

mapVars == <<mpStore, mpReply, mpDone, mpRaised, mpOut>>

selVars == <<slPersonas, slText, slState, slChosen, slDone, slRaised, slFinal>>

dialogVars == <<dgState, dgNl, dgFl, dgPreview, dgSelected, dgPage, dgChosen, dgLast>>

batchVars == <<btInput, btTopK, btCall, btReply, btPermits, btPc, btScored, btRanked, btCacheSet, btCached, btReturned>>

nlVars == <<nqStore, nqText, nqPc, nqCache, nqEmptied, nqPersonas, nqShown>>

lockVars == <<lkStore, lkOwner, lkPc, lkKey, lkEntry, lkNow, lkLost>>

liveVars == <<lvPc, lvRound, lvMine, lvOthers, lvPermits, lvStale>>

inferVars == <<ihQuery, ihDone, ihRes>>

keyVars == <<kyCall, kyDone, kyKey>>

vars == <<cacheVars, gateVars, handlerVars, ftsVars, tagVars, rankVars, searchVars, mapVars, selVars, dialogVars, batchVars, nlVars, lockVars, liveVars, inferVars, keyVars>>

notCache == <<gateVars, handlerVars, ftsVars, tagVars, rankVars, searchVars, mapVars, selVars, dialogVars, batchVars, nlVars, lockVars, liveVars, inferVars, keyVars>>

notGate == <<cacheVars, handlerVars, ftsVars, tagVars, rankVars, searchVars, mapVars, selVars, dialogVars, batchVars, nlVars, lockVars, liveVars, inferVars, keyVars>>

notHandler == <<cacheVars, gateVars, ftsVars, tagVars, rankVars, searchVars, mapVars, selVars, dialogVars, batchVars, nlVars, lockVars, liveVars, inferVars, keyVars>>

notFts == <<cacheVars, gateVars, handlerVars, tagVars, rankVars, searchVars, mapVars, selVars, dialogVars, batchVars, nlVars, lockVars, liveVars, inferVars, keyVars>>

notTag == <<cacheVars, gateVars, handlerVars, ftsVars, rankVars, searchVars, mapVars, selVars, dialogVars, batchVars, nlVars, lockVars, liveVars, inferVars, keyVars>>

notRank == <<cacheVars, gateVars, handlerVars, ftsVars, tagVars, searchVars, mapVars, selVars, dialogVars, batchVars, nlVars, lockVars, liveVars, inferVars, keyVars>>

notSearch == <<cacheVars, gateVars, handlerVars, ftsVars, tagVars, rankVars, mapVars, selVars, dialogVars, batchVars, nlVars, lockVars, liveVars, inferVars, keyVars>>

notMap == <<cacheVars, gateVars, handlerVars, ftsVars, tagVars, rankVars, searchVars, selVars, dialogVars, batchVars, nlVars, lockVars, liveVars, inferVars, keyVars>>

notSel == <<cacheVars, gateVars, handlerVars, ftsVars, tagVars, rankVars, searchVars, mapVars, dialogVars, batchVars, nlVars, lockVars, liveVars, inferVars, keyVars>>

notDialog == <<cacheVars, gateVars, handlerVars, ftsVars, tagVars, rankVars, searchVars, mapVars, selVars, batchVars, nlVars, lockVars, liveVars, inferVars, keyVars>>

notBatch == <<cacheVars, gateVars, handlerVars, ftsVars, tagVars, rankVars, searchVars, mapVars, selVars, dialogVars, nlVars, lockVars, liveVars, inferVars, keyVars>>

notNl == <<cacheVars, gateVars, handlerVars, ftsVars, tagVars, rankVars, searchVars, mapVars, selVars, dialogVars, batchVars, lockVars, liveVars, inferVars, keyVars>>

notLock == <<cacheVars, gateVars, handlerVars, ftsVars, tagVars, rankVars, searchVars, mapVars, selVars, dialogVars, batchVars, nlVars, liveVars, inferVars, keyVars>>

notLive == <<cacheVars, gateVars, handlerVars, ftsVars, tagVars, rankVars, searchVars, mapVars, selVars, dialogVars, batchVars, nlVars, lockVars, inferVars, keyVars>>

notInfer == <<cacheVars, gateVars, handlerVars, ftsVars, tagVars, rankVars, searchVars, mapVars, selVars, dialogVars, batchVars, nlVars, lockVars, liveVars, keyVars>>

notKey == <<cacheVars, gateVars, handlerVars, ftsVars, tagVars, rankVars, searchVars, mapVars, selVars, dialogVars, batchVars, nlVars, lockVars, liveVars, inferVars>>

None == "None"

EmptyMap == [k \in {} |-> None]

Min(a, b) == IF a <= b THEN a ELSE b

Max(a, b) == IF a >= b THEN a ELSE b

(***************************************************************************)
(* TTLCache                                                                *)
(***************************************************************************)

\* (a variant: an entry already stored is kept)
CacheSetDefault(store, key, value, ttl_s, t) ==
    [k \in DOMAIN store \cup {key} |->
        IF k = key /\ k \notin DOMAIN store THEN [expire_at |-> t + ttl_s, value |-> value]
        ELSE store[k]]

\* set: self._store[key] = TTLCacheEntry(expire_at=time.time() + ttl_s, value=value)
CacheSet(store, key, value, ttl_s, t) ==
    [k \in DOMAIN store \cup {key} |->
        IF k = key THEN [expire_at |-> t + ttl_s, value |-> value] ELSE store[k]]

\* the expiry test of get: entry.expire_at < time.time()
CacheExpired(entry, t) == entry.expire_at < t

\* the store after get(key): an expired entry is popped
CacheAfterGet(store, key, t) ==
    IF key \in DOMAIN store /\ CacheExpired(store[key], t)
    THEN [k \in DOMAIN store \ {key} |-> store[k]]
    ELSE store

\* what get(key) returns: None on a miss or an expired entry, else the value
CacheGet(store, key, t) ==
    IF key \notin DOMAIN store THEN None
    ELSE IF CacheExpired(store[key], t) THEN None
    ELSE store[key].value

(***************************************************************************)
(* AsyncLLMClient: the call gate                                           *)
(***************************************************************************)

\* AsyncLLMClient.max_concurrency (the default; nl_query builds the client bare)
max_concurrency == 4

\* worker threads of the event loop's default executor, which asyncio.to_thread
\* uses: min(32, os.cpu_count() + 4), at least 5
PoolWorkers == 5

\* concurrent callers of chat
NumCalls == 5

Calls == 1..NumCalls

\* messages handled concurrently by nl_query
NumMsgs == 2

Msgs == 1..NumMsgs

\* candidates handed to one ranking
MaxCands == 2

\* no semaphore: the call goes straight to LLMClient
NoSem == 0

\* ---- the cache driven directly: any key, value and ttl, any clock reading ----

MaxTime == 3

MaxTtl == 2

Keys == {"k1", "k2"}

Values == {"v1", "v2"}

NoOp == [op |-> "none", key |-> None, at |-> 0, found |-> FALSE,
         expire_at |-> 0, ret |-> None, value |-> None, ttl_s |-> 0]


(***************************************************************************)
(* fts_sanitize_query (chat/talk.py): text as a sequence of characters     *)
(***************************************************************************)

\* longest raw query
MaxLen == 3

Letters ==
    {"a", "b", "c", "d", "e", "f", "g", "h", "i", "j", "k", "l", "m",
     "n", "o", "p", "q", "r", "s", "t", "u", "v", "w", "x", "y", "z", "B", "O", "R"}

Digits == {"7"}

Whitespace == {" "}

\* the characters queries are made of
Chars == {"a", "B", "7", " ", "\"", "*", "\\"}

Texts == UNION {[1..n -> Chars] : n \in 0..MaxLen}

\* the capital letters that occur in the texts checked, with their small letters
Capitals == {<<"A", "a">>, <<"B", "b">>, <<"N", "n">>, <<"P", "p">>, <<"R", "r">>}

\* str.lower(), character by character
LowerChar(c) ==
    IF \E pair \in Capitals : pair[1] = c
    THEN (CHOOSE pair \in Capitals : pair[1] = c)[2]
    ELSE c

Lower(s) == [i \in 1..Len(s) |-> LowerChar(s[i])]

\* the characters the pattern [^0-9A-Za-z...\\s] leaves alone: in the raw
\* string the class holds the digits, the letters, and \\ followed by s, which
\* is an escaped backslash and the letter s
KeptChar(c) == c \in Digits \cup Letters \cup {"\\"}

RECURSIVE DropRun(_)
DropRun(s) ==
    IF s = <<>> \/ KeptChar(Head(s)) THEN s ELSE DropRun(Tail(s))

\* re.sub(pattern + "+", " ", s): every maximal run of other characters
\* becomes one space
RECURSIVE Substitute(_)
Substitute(s) ==
    IF s = <<>> THEN <<>>
    ELSE IF KeptChar(Head(s)) THEN <<Head(s)>> \o Substitute(Tail(s))
    ELSE <<" ">> \o Substitute(DropRun(Tail(s)))

\* [t for t in s.split() if t]: the maximal runs of non-whitespace
RECURSIVE SplitWords(_, _, _)
SplitWords(s, cur, acc) ==
    IF s = <<>> THEN (IF cur = <<>> THEN acc ELSE Append(acc, cur))
    ELSE IF Head(s) \in Whitespace
         THEN SplitWords(Tail(s), <<>>, IF cur = <<>> THEN acc ELSE Append(acc, cur))
         ELSE SplitWords(Tail(s), Append(cur, Head(s)), acc)

\* " OR ".join(prefixed)
RECURSIVE JoinOr(_)
JoinOr(toks) ==
    IF Len(toks) = 1 THEN toks[1]
    ELSE toks[1] \o <<" ", "O", "R", " ">> \o JoinOr(Tail(toks))

fts_tokens(query) == SplitWords(Substitute(Lower(query)), <<>>, <<>>)

\* (a variant: no tokens give the query "*")
SanitizeStar(query) ==
    LET tokens == fts_tokens(query)
        prefixed == [i \in 1..Len(tokens) |-> Append(tokens[i], "*")]
    IN  IF tokens = <<>> THEN <<"*">> ELSE JoinOr(prefixed)

fts_sanitize_query(query) ==
    LET tokens == fts_tokens(query)
        prefixed == [i \in 1..Len(tokens) |-> Append(tokens[i], "*")]
    IN  IF tokens = <<>> THEN <<>> ELSE JoinOr(prefixed)


(***************************************************************************)
(* search_personas_advanced (chat/talk.py)                                 *)
(***************************************************************************)

\* rows of table personas, in the order the store scans them
NumProfiles == 2

Profiles == 1..NumProfiles

\* most (category, value) pairs in one criteria
MaxCritPairs == 2

Categories == {"gender", "age"}

TagValues == {"female", "male", "18-24"}

\* the (category, value) pairs that tag assignments are made of
TaxPairs == {<<"gender", "female">>, <<"gender", "male">>, <<"age", "18-24">>}

\* one section of the criteria, dict category -> list of values
SectionMaps ==
    {m \in [Categories -> SUBSET TagValues] :
        \A c \in Categories : \A v \in m[c] : <<c, v>> \in TaxPairs}

\* the (category, value) pairs a section lists
PairsOf(section) == {pr \in Categories \X TagValues : pr[2] \in section[pr[1]]}

\* EXISTS (SELECT 1 FROM persona_tags t WHERE t.persona_id=p.persona_id
\*         AND t.category=? AND t.value=?)
HasTag(store, p, c, v) == <<c, v>> \in store[p]

\* one EXISTS clause per include_all pair, all joined by AND
AllClauses(store, p, include_all) ==
    \A c \in Categories : \A v \in include_all[c] : HasTag(store, p, c, v)

\* (a variant: one OR group per category, the groups joined by AND)
AnyClauseGrouped(store, p, include_any) ==
    \A c \in Categories :
        include_any[c] = {} \/ \E v \in include_any[c] : HasTag(store, p, c, v)

\* any_pairs over every category, then one EXISTS clause whose OR terms are
\* the pairs; no clause when any_pairs is empty
AnyClause(store, p, include_any) ==
    LET any_pairs == {pr \in Categories \X TagValues : pr[2] \in include_any[pr[1]]}
    IN  any_pairs = {} \/
        \E t \in store[p] : \E pr \in any_pairs : t[1] = pr[1] /\ t[2] = pr[2]

\* one NOT EXISTS clause per exclude pair, all joined by AND
ExcludeClauses(store, p, exclude) ==
    \A c \in Categories : \A v \in exclude[c] : ~HasTag(store, p, c, v)

\* the WHERE of the SELECT (title_like is None)
WhereSql(store, p, crit) ==
    /\ AllClauses(store, p, crit.include_all)
    /\ AnyClause(store, p, crit.include_any)
    /\ ExcludeClauses(store, p, crit.exclude)

\* SELECT ... FROM personas p WHERE ... LIMIT ?
search_personas_advanced(store, crit) ==
    LET scan == [i \in Profiles |-> i]
        rows == SelectSeq(scan, LAMBDA p : WhereSql(store, p, crit))
    IN  SubSeq(rows, 1, Min(crit.limit, Len(rows)))


(***************************************************************************)
(* The ranker: _rerank_async (bot/services/persona_search.py) and          *)
(* llm_rerank (chat/talk.py). Scores are kept in tenths.                   *)
(***************************************************************************)

\* most candidates in one ranking
MaxRanked == 3

RankIds == 1..MaxRanked

\* replies of the model, as character sequences
ReplyTexts ==
    {<<"1">>, <<"0", ",", "5">>, <<"0", " ">>, <<"n", "o">>, <<"-", "1">>, <<"n", "a", "n">>}

\* what a scoring call comes to: a reply text, an upstream error, a timeout
Outcomes ==
    {[kind |-> "text", txt |-> t] : t \in ReplyTexts}
        \cup {[kind |-> "error", txt |-> <<>>], [kind |-> "timeout", txt |-> <<>>]}

DigitChars == {"0", "1", "2", "3", "4", "5", "6", "7", "8", "9"}

DigitVal(c) == CHOOSE n \in 0..9 : <<"0", "1", "2", "3", "4", "5", "6", "7", "8", "9">>[n + 1] = c

\* str.replace(",", ".")
ReplaceComma(s) == [i \in 1..Len(s) |-> IF s[i] = "," THEN "." ELSE s[i]]

\* str.strip()
RECURSIVE StripLeft(_)
StripLeft(s) == IF s # <<>> /\ Head(s) = " " THEN StripLeft(Tail(s)) ELSE s

RECURSIVE StripRight(_)
StripRight(s) ==
    IF s # <<>> /\ s[Len(s)] = " " THEN StripRight(SubSeq(s, 1, Len(s) - 1)) ELSE s

Strip(s) == StripRight(StripLeft(s))

RECURSIVE IntVal(_)
IntVal(ds) ==
    IF ds = <<>> THEN 0 ELSE IntVal(SubSeq(ds, 1, Len(ds) - 1)) * 10 + DigitVal(ds[Len(ds)])

\* float('nan'): a value no reply's number equals
NaN == 1000

\* float(text) for "nan" and for decimal texts of at most one fractional digit:
\* ok is FALSE where float raises ValueError, val is the number in tenths, or
\* NaN
ParseFloat(s) ==
    LET neg == s # <<>> /\ Head(s) = "-"
        body == IF neg THEN Tail(s) ELSE s
        dots == {i \in 1..Len(body) : body[i] = "."}
        nan == body = <<"n", "a", "n">>
        ok == \/ nan
              \/ /\ Cardinality(dots) <= 1
                 /\ \A i \in 1..Len(body) : body[i] \in DigitChars \cup {"."}
                 /\ \E i \in 1..Len(body) : body[i] \in DigitChars
        d == IF dots = {} THEN Len(body) + 1 ELSE CHOOSE i \in dots : TRUE
        whole == SubSeq(body, 1, d - 1)
        frac == SubSeq(body, d + 1, Len(body))
        tenths == IntVal(whole) * 10 + (IF frac = <<>> THEN 0 ELSE DigitVal(frac[1]))
    IN  [ok |-> ok,
         val |-> IF nan THEN NaN
                 ELSE IF ok THEN (IF neg THEN 0 - tenths ELSE tenths) ELSE 0]

\* (a variant: only the ValueError of float is caught)
CaughtValueErrorOnly(exc) == exc = "ValueError"

\* except Exception: TimeoutError, the client's errors and ValueError
Caught(exc) == exc \in {"ValueError", "TimeoutError", "UpstreamError"}

\* the try block of score: the chat call, then float(...) of its text
TryScore(o) ==
    IF o.kind = "timeout" THEN [exc |-> "TimeoutError", val |-> 0]
    ELSE IF o.kind = "error" THEN [exc |-> "UpstreamError", val |-> 0]
    ELSE LET f == ParseFloat(Strip(ReplaceComma(o.txt)))
         IN  IF f.ok THEN [exc |-> None, val |-> f.val]
             ELSE [exc |-> "ValueError", val |-> 0]

\* score(p): 0.0 when the try block raised something the except clause catches
Score(o) ==
    LET r == TryScore(o)
    IN  IF r.exc # None /\ Caught(r.exc) THEN [exc |-> None, val |-> 0] ELSE r

\* x < y on the keys of two (score, p) pairs, as floats compare: never with nan
ISLT(x, y) == x[1] # NaN /\ y[1] # NaN /\ x[1] < y[1]

Reverse(s) == [i \in 1..Len(s) |-> s[Len(s) + 1 - i]]

\* list.sort, count_run: the length of the run s starts with, and whether it is
\* a strictly descending one
count_run(s) ==
    IF Len(s) <= 1 THEN [n |-> Len(s), descending |-> FALSE]
    ELSE LET desc == ISLT(s[2], s[1])
             runs(i) == IF desc THEN ISLT(s[i], s[i - 1]) ELSE ~ISLT(s[i], s[i - 1])
         IN  [n |-> CHOOSE k \in 2..Len(s) :
                        /\ \A i \in 2..k : runs(i)
                        /\ k = Len(s) \/ ~runs(k + 1),
              descending |-> desc]

\* list.sort, binarysort: where pivot goes among the first r elements of s,
\* which are sorted (l and r count elements)
RECURSIVE BinarySearch(_, _, _, _)
BinarySearch(s, pivot, l, r) ==
    LET p == l + ((r - l) \div 2)
        l2 == IF ISLT(pivot, s[p + 1]) THEN l ELSE p + 1
        r2 == IF ISLT(pivot, s[p + 1]) THEN p ELSE r
    IN  IF l2 < r2 THEN BinarySearch(s, pivot, l2, r2) ELSE l2

\* list.sort, binarysort: the first start elements of s are sorted; the others
\* are inserted one by one
RECURSIVE binarysort(_, _)
binarysort(s, start) ==
    IF start >= Len(s) THEN s
    ELSE LET pivot == s[start + 1]
             l == BinarySearch(s, pivot, 0, start)
         IN  binarysort(SubSeq(s, 1, l) \o <<pivot>> \o SubSeq(s, l + 1, start)
                            \o SubSeq(s, start + 2, Len(s)),
                        start + 1)

\* results.sort(key=lambda x: x[0], reverse=True) for a list shorter than 64:
\* the list is reversed, its first run is taken (and reversed if it descends),
\* the rest is inserted by binary search, and the list is reversed again
SortByScore(pairs) ==
    LET s == Reverse(pairs)
        run == count_run(s)
        s1 == IF run.descending
              THEN Reverse(SubSeq(s, 1, run.n)) \o SubSeq(s, run.n + 1, Len(s))
              ELSE s
        s2 == IF run.n < Len(s) THEN binarysort(s1, run.n) ELSE s1
    IN  Reverse(s2)

\* results[:top_k]
TakeTopK(pairs, top_k) == SubSeq(pairs, 1, Min(top_k, Len(pairs)))

\* the ranker up to its sort: a (score, p) pair per candidate in input order,
\* then the sort. It raises when a score call raised (gather without
\* return_exceptions; the loop of llm_rerank).
RankScored(personas, replies) ==
    LET scores == [i \in 1..Len(personas) |-> Score(replies[i])]
        raised == \E i \in 1..Len(personas) : scores[i].exc # None
    IN  [raised |-> raised,
         results |-> IF raised THEN <<>>
                     ELSE SortByScore([i \in 1..Len(personas) |->
                                            <<scores[i].val, personas[i]>>])]

\* return [p for _, p in results[:top_k]]
RankOutput(results, top_k) ==
    LET top == TakeTopK(results, top_k)
    IN  [i \in 1..Len(top) |-> top[i][2]]


(***************************************************************************)
(* PersonaSearchService.search_by_description_fast / search_by_description *)
(* (bot/services/persona_search.py) and search_by_description_with_fallback*)
(* (chat/talk.py). Cyrillic text is written in Latin transliteration.      *)
(***************************************************************************)

\* ttl_s of the cached description searches
CacheTtl == 1800

\* description searches made in one run
MaxSearchCalls == 2

\* the clock stops here
MaxClock == 2000

\* a profile: its rows of persona_tags and the words personas_fts indexes
PersonaKinds ==
    {[tags |-> {<<"gender", "female">>}, words |-> {<<"a", "b">>}],
     [tags |-> {<<"gender", "male">>, <<"age", "18-24">>}, words |-> {<<"b", "7">>}]}

Stores == [Profiles -> PersonaKinds]

\* the queries searched for
SearchQueries ==
    {<<" ", "a", " ", "B">>, <<"7">>, <<"p", "a", "r", "n", " ", "a">>, <<"y", "u", "n">>}

\* (k_fts, top_k): the defaults of search_by_description_fast, and small ones
SearchArgs == {<<40, 12>>, <<1, 1>>}

\* w in q
Contains(q, w) ==
    \E i \in 1..(Len(q) - Len(w) + 1) : SubSeq(q, i, i + Len(w) - 1) = w

FemaleCues ==
    {<<"d", "e", "v", "u", "s", "h", "k">>,
     <<"z", "h", "e", "n", "s", "h", "c", "h", "i", "n">>,
     <<"z", "h", "e", "n", "s", "k">>,
     <<"d", "e", "v", "c", "h", "o", "n", "k">>}

MaleCues ==
    {<<"p", "a", "r", "n">>,
     <<"y", "u", "n", "o", "s", "h">>,
     <<"m", "u", "z", "h", "c", "h", "i", "n">>,
     <<"m", "a", "l", "c", "h", "i", "k">>}

YoungCues ==
    {<<"m", "o", "l", "o", "d">>,
     <<"y", "u", "n">>,
     <<"s", "t", "u", "d", "e", "n", "t">>,
     <<"s", "h", "k", "o", "l", "n">>}

TeenCues ==
    {<<"p", "o", "d", "r", "o", "s", "t">>,
     <<"t", "i", "n", "e", "y", "d", "z", "h">>}

AdultCues == {<<"v", "z", "r", "o", "s", "l">>}

\* _infer_hard_filters: dict category -> values, here with no entry as {}
infer_hard_filters(query) ==
    LET q == Lower(query)
        any(ws) == \E w \in ws : Contains(q, w)
    IN  [c \in Categories |->
            IF c = "gender"
            THEN (IF any(FemaleCues) THEN {"female"}
                  ELSE IF any(MaleCues) THEN {"male"} ELSE {})
            ELSE (IF any(YoungCues) THEN {"18-24", "15-34"} ELSE {})
                 \cup (IF any(TeenCues) THEN {"15-24"} ELSE {})
                 \cup (IF any(AdultCues) THEN {"25-34", "35-44"} ELSE {})]

\* tags_for_persona(pid)[cat]
tags_for_persona(store, p, cat) == {t[2] : t \in {u \in store[p].tags : u[1] = cat}}

\* (a variant: the candidates as they are)
apply_no_filter(store, hard, personas) == personas

\* _apply_hard_filter: a profile stays when, for every category with values,
\* one of its values of the category is among them
apply_hard_filter(store, hard, personas) ==
    SelectSeq(personas, LAMBDA p :
        \A cat \in Categories :
            hard[cat] = {} \/ tags_for_persona(store, p, cat) \cap hard[cat] # {})

\* token* matches a word that starts with token
IsPrefix(tok, w) == Len(tok) <= Len(w) /\ SubSeq(w, 1, Len(tok)) = tok

\* personas_fts MATCH 'tok1* OR tok2* ...' on one row
FtsMatch(words, tokens) ==
    \E i \in 1..Len(tokens) : \E w \in words : IsPrefix(tokens[i], w)

\* personas_fts MATCH ?: the index rejects an argument that holds a backslash
\* (fts5: syntax error)
FtsSyntaxError(safe) == \E i \in 1..Len(safe) : safe[i] = "\\"

\* fts_candidates(query, k): rows of personas_fts that match, LIMIT k
fts_candidates(store, query, k) ==
    LET scan == [i \in Profiles |-> i]
        rows == SelectSeq(scan, LAMBDA p : FtsMatch(store[p].words, fts_tokens(query)))
    IN  IF fts_sanitize_query(query) = <<>> THEN <<>>
        ELSE SubSeq(rows, 1, Min(k, Len(rows)))

\* db_taxonomy(): the (category, value) pairs present in persona_tags
db_taxonomy(store) == UNION {store[p].tags : p \in Profiles}

EmptyMapping ==
    [tags |-> [c \in Categories |-> {}], tagCats |-> {}, keywords |-> <<>>,
     alt_queries |-> <<>>]

\* ---- the reply of the mapping call, as json.loads reads it ----

\* a member that is missing (or null)
Absent == [shape |-> "absent", text |-> <<>>, items |-> <<>>]

\* a member that is a JSON array; an item is a string (str) or another value
ListOf(items) == [shape |-> "list", text |-> <<>>, items |-> items]

\* a member that is a JSON string where an array is asked
StringOf(text) == [shape |-> "string", text |-> text, items |-> <<>>]

\* a member that is a number other than 0
NumberMember == [shape |-> "number", text |-> <<>>, items |-> <<>>]

Str(x) == [str |-> TRUE, val |-> x]

NotStr == [str |-> FALSE, val |-> <<>>]

\* the chat call raised (timeout, error) or gave a text that is not JSON (text)
NoJson(kind) ==
    [kind |-> kind, top |-> "none", tagsShape |-> "absent", tags |-> {},
     keywords |-> Absent, alt_queries |-> Absent]

\* a JSON text whose top-level value is no object: a list, a number, a string,
\* null
NotObject(top) ==
    [kind |-> "json", top |-> top, tagsShape |-> "absent", tags |-> {},
     keywords |-> Absent, alt_queries |-> Absent]

\* a JSON object. tagsShape tells what "tags" is: absent, an object, or a
\* non-empty list / a string / a number; for an object, tags holds its content:
\* [cat, val, as], val being a string of the list under cat (as = "str"),
\* another kind of item of that list ("other"), or the value under cat itself
\* where that is no list ("scalar")
JsonObject(tagsShape, tags, keywords, alt_queries) ==
    [kind |-> "json", top |-> "object", tagsShape |-> tagsShape, tags |-> tags,
     keywords |-> keywords, alt_queries |-> alt_queries]

\* a well-formed reply that maps to these (category, value) pairs and
\* alternate queries
Mapping(pairs, alts) ==
    JsonObject("object", {[cat |-> pr[1], val |-> pr[2], as |-> "str"] : pr \in pairs},
               ListOf(<<>>), ListOf([i \in 1..Len(alts) |-> Str(alts[i])]))

\* what the mapping call of a search comes to: a timeout, an upstream error, a
\* text that is not JSON, or a JSON object with tags and alt_queries
MapOutcomes ==
    {NoJson(k) : k \in {"timeout", "error", "text"}}
        \cup {Mapping({<<"gender", "female">>}, <<>>),
              Mapping({<<"gender", "robot">>}, <<>>),
              Mapping({}, <<<<"b">>>>)}

\* (a variant: the category is checked against the taxonomy, the value is not)
ValidOfKnownCategory(known, reply_tags, cat) ==
    IF \E pr \in known : pr[1] = cat
    THEN {e.val : e \in {x \in reply_tags : x.cat = cat /\ x.as = "str"}}
    ELSE {}

\* filtered_vals for cat: [v for v in vals if isinstance(v, str) and
\* v in known[cat]], asked only if cat in known and isinstance(vals, list)
filtered_vals(known, reply_tags, cat) ==
    {e.val : e \in {x \in reply_tags :
                        x.cat = cat /\ x.as = "str" /\ <<cat, x.val>> \in known}}

\* [k for k in (data.get(name) or []) if isinstance(k, str)]: a string is
\* iterated character by character, a number cannot be iterated
StrItems(member) ==
    IF member.shape = "list"
    THEN LET kept == SelectSeq(member.items, LAMBDA it : it.str)
         IN  [i \in 1..Len(kept) |-> kept[i].val]
    ELSE IF member.shape = "string"
    THEN [i \in 1..Len(member.text) |-> <<member.text[i]>>]
    ELSE <<>>

\* where the mapper raises: the chat call raised (it stands before the try);
\* data.get on a value that is no dict; raw_tags.items() on a value that is no
\* dict; iterating a number
MapperRaises(o) ==
    \/ o.kind \in {"timeout", "error"}
    \/ /\ o.kind = "json"
       /\ \/ o.top # "object"
          \/ o.tagsShape \notin {"absent", "object"}
          \/ o.keywords.shape = "number"
          \/ o.alt_queries.shape = "number"

\* _llm_map_description_to_filters_async / llm_map_description_to_filters:
\* json.loads stands inside the try, the rest after it; tags[cat] is set when
\* filtered_vals is not empty
map_description_to_filters(store, o) ==
    IF MapperRaises(o)
    THEN [raised |-> TRUE, mapped |-> EmptyMapping]
    ELSE IF o.kind = "text"
    THEN [raised |-> FALSE, mapped |-> EmptyMapping]
    ELSE LET known == db_taxonomy(store)
             tags == [c \in Categories |-> filtered_vals(known, o.tags, c)]
         IN  [raised |-> FALSE,
              mapped |-> [tags |-> tags,
                          tagCats |-> {c \in Categories : tags[c] # {}},
                          keywords |-> StrItems(o.keywords),
                          alt_queries |-> StrItems(o.alt_queries)]]

\* for alt in alt_queries[:4]: alt_hits.extend(fts_candidates(alt, k))
RECURSIVE AltHits(_, _, _)
AltHits(store, alts, k) ==
    IF alts = <<>> THEN <<>>
    ELSE fts_candidates(store, Head(alts), k) \o AltHits(store, Tail(alts), k)

\* combined[p.persona_id] = p over the hits; list(combined.values())
RECURSIVE Combined(_, _)
Combined(hits, acc) ==
    IF hits = <<>> THEN acc
    ELSE Combined(Tail(hits),
                  IF \E i \in 1..Len(acc) : acc[i] = Head(hits) THEN acc
                  ELSE Append(acc, Head(hits)))

\* a criteria of search_personas_advanced
Crit(include_all, include_any, limit) ==
    [include_all |-> include_all, include_any |-> include_any,
     exclude |-> [c \in Categories |-> {}], limit |-> limit]

NoTags == [c \in Categories |-> {}]

TagStore(store) == [p \in Profiles |-> store[p].tags]


\* isinstance(cached, list) after cached = await self._cache.get(key)
CachedList(store, key, t) == key \in DOMAIN store /\ ~CacheExpired(store[key], t)

\* what the scoring call of each candidate comes to
ScoreOutcomes ==
    {[kind |-> "text", txt |-> <<"1">>], [kind |-> "timeout", txt |-> <<>>]}

\* the end of a description search: what it returned or that it raised, the
\* cache it leaves, and the scoring-client calls it issued
Ended(hit, raised, result, store, mapKind, mapReturned, mapped, rankCalls) ==
    [hit |-> hit, raised |-> raised, result |-> result, cache |-> store,
     mapKind |-> mapKind, mapReturned |-> mapReturned, mapped |-> mapped,
     mapCalls |-> IF mapKind = "none" THEN 0 ELSE 1, rankCalls |-> rankCalls]

\* the key of a description search: f"{prefix}:{query.strip().lower()}:{k_fts}:{top_k}"
SearchKey(prefix, query, k_fts, top_k) == <<prefix, Lower(Strip(query)), k_fts, top_k>>

\* search_by_filters({}, include_any, {}, limit) with the mapper's tags, made
\* only if include_any is not empty
any_hits(store, mapped, limit) ==
    IF mapped.tagCats # {}
    THEN search_personas_advanced(TagStore(store), Crit(NoTags, mapped.tags, limit))
    ELSE <<>>

\* the hits of the first four alt_queries
alt_hits(store, mapped, k_fts) ==
    AltHits(store, SubSeq(mapped.alt_queries, 1, Min(4, Len(mapped.alt_queries))),
            Max(10, k_fts \div 2))

\* step 2 of search_by_description_fast up to the hard filter: the tag hits (by
\* include_any, or by the hard filters when there are any) and the alt hits,
\* merged by profile id
fast_combined(store, hard, mapped, k_fts) ==
    LET tag_hits == IF hard # NoTags
                    THEN search_personas_advanced(TagStore(store), Crit(hard, NoTags, 400))
                    ELSE any_hits(store, mapped, 400)
    IN  Combined(tag_hits \o alt_hits(store, mapped, k_fts), <<>>)

\* step 2 of search_by_description_fast: the merged hits, then the hard filter
fast_fallback(store, hard, mapped, k_fts) ==
    apply_hard_filter(store, hard, fast_combined(store, hard, mapped, k_fts))

\* step 2 of search_by_description_with_fallback: the tag hits by include_any
\* and the hits of the first four alt_queries, merged
legacy_fallback(store, mapped, k_fts) ==
    Combined(any_hits(store, mapped, 500) \o alt_hits(store, mapped, k_fts), <<>>)

\* return ranked or candidates[:top_k]
RankedOrCandidates(ranked, candidates, top_k) ==
    IF ranked # <<>> THEN ranked ELSE SubSeq(candidates, 1, Min(top_k, Len(candidates)))

\* no description search made yet
NoSearch ==
    [done |-> FALSE, op |-> "none", query |-> <<>>, k_fts |-> 0, top_k |-> 0, at |-> 0,
     hit |-> FALSE, raised |-> FALSE, result |-> <<>>, mapKind |-> "none",
     mapReturned |-> FALSE, mapped |-> EmptyMapping, mapCalls |-> 0, rankCalls |-> 0,
     repeat |-> FALSE]

(***************************************************************************)
(* bot/handlers/candidates.py: the selector                                *)
(***************************************************************************)

\* the en dash (U+2013), one character
EnDash == "--"

\* the Cyrillic letters ord_map is written in, one character each, by name
OrdLetters ==
    {"pe", "ie", "er", "ve", "ah", "oo", "te", "oh", "soft", "yu", "che", "ya",
     "sha", "es", "de", "em"}

\* ch.isdigit()
IsDigit(c) == c \in DigitChars

\* ch.isalpha()
IsAlpha(c) == c \in Letters \cup OrdLetters

\* "".join(ch for ch in token if ch.isdigit())
DigitsOf(token) == SelectSeq(token, IsDigit)

\* str(i)
RECURSIVE StrOfInt(_)
StrOfInt(i) ==
    LET d == <<"0", "1", "2", "3", "4", "5", "6", "7", "8", "9">>[(i % 10) + 1]
    IN  IF i < 10 THEN <<d>> ELSE Append(StrOfInt(i \div 10), d)

\* by_idx = {str(i): personas[i - 1] for i in range(1, len(personas) + 1)}:
\* the keys
by_idx(n) == {StrOfInt(i) : i \in 1..n}

\* the index a key of by_idx stands for
IdxOfKey(key, n) == CHOOSE i \in 1..n : StrOfInt(i) = key

\* text.replace(";", ",").split(",")
RECURSIVE SplitComma(_, _, _)
SplitComma(text, cur, acc) ==
    IF text = <<>> THEN Append(acc, cur)
    ELSE IF Head(text) \in {",", ";"}
         THEN SplitComma(Tail(text), <<>>, Append(acc, cur))
         ELSE SplitComma(Tail(text), Append(cur, Head(text)), acc)

\* parts = [p.strip() for p in text.replace(";", ",").split(",") if p.strip()]
parts(text) ==
    LET raw == SplitComma(text, <<>>, <<>>)
        stripped == [i \in 1..Len(raw) |-> Strip(raw[i])]
    IN  SelectSeq(stripped, LAMBDA p : p # <<>>)

ord_map ==
    <<<<<<"pe", "ie", "er", "ve", "ah">>, 1>>, <<<<"pe", "ie", "er", "ve", "oo">>, 1>>,
      <<<<"pe", "ie", "er", "ve">>, 1>>,
      <<<<"ve", "te", "oh", "er", "ah">>, 2>>, <<<<"ve", "te", "oh", "er", "oo">>, 2>>,
      <<<<"ve", "te", "oh", "er">>, 2>>,
      <<<<"te", "er", "ie", "te", "soft">>, 3>>, <<<<"te", "er", "ie", "te", "soft", "yu">>, 3>>,
      <<<<"te", "er", "ie", "te">>, 3>>,
      <<<<"che", "ie", "te", "ve">>, 4>>,
      <<<<"pe", "ya", "te">>, 5>>,
      <<<<"sha", "ie", "es", "te">>, 6>>,
      <<<<"es", "ie", "de", "soft", "em">>, 7>>,
      <<<<"ve", "oh", "es", "soft", "em">>, 8>>,
      <<<<"de", "ie", "ve", "ya", "te">>, 9>>,
      <<<<"de", "ie", "es", "ya", "te">>, 10>>>>

\* sep = "-" if "-" in token else ("en dash" if "en dash" in token else None)
SepOf(token) ==
    IF \E i \in 1..Len(token) : token[i] = "-" THEN "-"
    ELSE IF \E i \in 1..Len(token) : token[i] = EnDash THEN EnDash
    ELSE "none"

\* token.split(sep, 1)
SplitOnce(token, sep) ==
    LET i == CHOOSE k \in 1..Len(token) :
                 token[k] = sep /\ \A j \in 1..(k - 1) : token[j] # sep
    IN  <<SubSeq(token, 1, i - 1), SubSeq(token, i + 1, Len(token))>>

\* int("".join(digits)) raises ValueError on the empty string
RangeRaises(token, sep) ==
    LET ab == SplitOnce(token, sep)
    IN  DigitsOf(ab[1]) = <<>> \/ DigitsOf(ab[2]) = <<>>

\* for i in range(ai, bi + 1): if str(i) in by_idx
RangeIdx(token, sep, n) ==
    LET ab == SplitOnce(token, sep)
        lo == Max(IntVal(DigitsOf(ab[1])), 1)
        hi == Min(IntVal(DigitsOf(ab[2])), n)
    IN  [k \in 1..Max(hi - lo + 1, 0) |-> lo + k - 1]

\* for key, i in ord_map.items(): if token.startswith(key) and str(i) in by_idx
OrdIdx(token, n) ==
    LET hits == SelectSeq(ord_map, LAMBDA e : IsPrefix(e[1], token) /\ e[2] <= n)
    IN  IF hits = <<>> THEN <<>> ELSE <<hits[1][2]>>

\* (a variant: nothing is caught)
SelCaughtNothing(exc) == FALSE

\* except Exception: pass
SelCaught(exc) == exc \in {"ValueError"}

\* one pass of "for token in parts": the indices the token adds to chosen, and
\* the exception that leaves the loop, if one does
TokenPick(token, n) ==
    LET num_only == DigitsOf(token)
        sep == SepOf(token)
    IN  IF num_only # <<>> /\ num_only \in by_idx(n)
        THEN [idx |-> <<IdxOfKey(num_only, n)>>, exc |-> "none"]
        ELSE IF sep # "none" /\ ~RangeRaises(token, sep)
        THEN [idx |-> RangeIdx(token, sep, n), exc |-> "none"]
        ELSE IF sep # "none" /\ ~SelCaught("ValueError")
        THEN [idx |-> <<>>, exc |-> "ValueError"]
        ELSE [idx |-> OrdIdx(token, n), exc |-> "none"]

\* the whole loop over parts
RECURSIVE PickAll(_, _)
PickAll(ps, n) ==
    IF ps = <<>> THEN [idx |-> <<>>, exc |-> "none"]
    ELSE LET first == TokenPick(Head(ps), n)
             rest == PickAll(Tail(ps), n)
         IN  IF first.exc # "none" THEN first
             ELSE [idx |-> first.idx \o rest.idx, exc |-> rest.exc]

\* SequenceMatcher.find_longest_match(alo, ahi, blo, bhi): the longest block
\* a[i:i+k] == b[j:j+k], of those the one that starts earliest in a, of those
\* the one that starts earliest in b
BlockLen(a, b, i, j, ahi, bhi) ==
    CHOOSE k \in 0..Min(ahi - i + 1, bhi - j + 1) :
        /\ SubSeq(a, i, i + k - 1) = SubSeq(b, j, j + k - 1)
        /\ \/ k = Min(ahi - i + 1, bhi - j + 1)
           \/ a[i + k] # b[j + k]

find_longest_match(a, b, alo, ahi, blo, bhi) ==
    LET starts == (alo..ahi) \X (blo..bhi)
        best == CHOOSE st \in starts :
                    \A other \in starts :
                        LET k == BlockLen(a, b, st[1], st[2], ahi, bhi)
                            ko == BlockLen(a, b, other[1], other[2], ahi, bhi)
                        IN  \/ k > ko
                            \/ k = ko /\ st[1] < other[1]
                            \/ k = ko /\ st[1] = other[1] /\ st[2] <= other[2]
    IN  <<best[1], best[2], BlockLen(a, b, best[1], best[2], ahi, bhi)>>

\* SequenceMatcher.get_matching_blocks: the characters matched in all
RECURSIVE Matches(_, _, _, _, _, _)
Matches(a, b, alo, ahi, blo, bhi) ==
    IF alo > ahi \/ blo > bhi THEN 0
    ELSE LET m == find_longest_match(a, b, alo, ahi, blo, bhi)
         IN  IF m[3] = 0 THEN 0
             ELSE m[3] + Matches(a, b, alo, m[1] - 1, blo, m[2] - 1)
                       + Matches(a, b, m[1] + m[3], ahi, m[2] + m[3], bhi)

\* SequenceMatcher(None, a, b).ratio() = 2.0 * matches / (len(a) + len(b)), as
\* the fraction <<numerator, denominator>>; 1.0 for two empty strings
ratio(a, b) ==
    IF Len(a) + Len(b) = 0 THEN <<1, 1>>
    ELSE <<2 * Matches(a, b, 1, Len(a), 1, Len(b)), Len(a) + Len(b)>>

\* x > y for two ratios
RatioGreater(x, y) == x[1] * y[2] > y[1] * x[2]

\* sc >= 0.65
AtLeastThreshold(sc) == sc[1] * 100 >= 65 * sc[2]

\* scores.sort(reverse=True, key=lambda x: x[0]): descending, entries of equal
\* score in the order they had
RECURSIVE SortScores(_)
SortScores(scores) ==
    IF scores = <<>> THEN <<>>
    ELSE LET rest == SortScores(SubSeq(scores, 1, Len(scores) - 1))
             x == scores[Len(scores)]
             before == SelectSeq(rest, LAMBDA y : ~RatioGreater(x[1], y[1]))
             after == SelectSeq(rest, LAMBDA y : RatioGreater(x[1], y[1]))
         IN  before \o <<x>> \o after

\* _select_by_phrase_text(candidates, phrase)
select_by_phrase_text(candidates, phrase) ==
    LET phrase_l == Lower(phrase)
        toks == SelectSeq(SplitWords(phrase_l, <<>>, <<>>), LAMBDA t : Len(t) >= 3)
        out == SelectSeq(candidates, LAMBDA c :
                   \A i \in 1..Len(toks) : Contains(Lower(c.title), toks[i]))
        scores == SortScores([i \in 1..Len(candidates) |->
                                 <<ratio(phrase_l, Lower(candidates[i].title)), candidates[i]>>])
        good == SelectSeq(scores, LAMBDA e : AtLeastThreshold(e[1]))
    IN  IF out # <<>> THEN SubSeq(out, 1, Min(5, Len(out)))
        ELSE [i \in 1..Min(3, Len(good)) |-> good[i][2]]

\* the loop that takes the duplicates off: by profile id, first seen first
RECURSIVE Dedupe(_, _)
Dedupe(chosen, seen) ==
    IF chosen = <<>> THEN <<>>
    ELSE IF Head(chosen).pid \in seen THEN Dedupe(Tail(chosen), seen)
         ELSE <<Head(chosen)>> \o Dedupe(Tail(chosen), seen \cup {Head(chosen).pid})

\* choose_text_candidates on the list shown and the message text: whether it
\* raised, whether a selection was understood, and the selection (final)
choose_text_candidates(personas, message_text) ==
    LET text == Lower(Strip(message_text))
        n == Len(personas)
        picked == PickAll(parts(text), n)
        by_index == [i \in 1..Len(picked.idx) |-> personas[picked.idx[i]]]
        chosen == IF by_index = <<>> /\ \E i \in 1..Len(text) : IsAlpha(text[i])
                  THEN select_by_phrase_text(personas, text)
                  ELSE by_index
    IN  IF personas = <<>> \/ text = <<>>
        THEN [raised |-> FALSE, understood |-> FALSE, final |-> <<>>]
        ELSE IF picked.exc # "none"
        THEN [raised |-> TRUE, understood |-> FALSE, final |-> <<>>]
        ELSE [raised |-> FALSE, understood |-> chosen # <<>>,
              final |-> Dedupe(chosen, {})]

(***************************************************************************)
(* The state after construction, component by component                    *)
(***************************************************************************)

\* TTLCache.__init__: an empty store
CacheIdle == cache = EmptyMap /\ now = 0 /\ lastOp = NoOp

\* AsyncLLMClient.__post_init__: asyncio.Semaphore(max_concurrency), no call made
GateIdle ==
    /\ gSt = [c \in Calls |-> "idle"]
    /\ gThread = [c \in Calls |-> FALSE]
    /\ permits = max_concurrency

\* no message is being handled
HandlerIdle ==
    /\ hPc = [m \in Msgs |-> "idle"]
    /\ hFts = [m \in Msgs |-> None]
    /\ hLeft = [m \in Msgs |-> 0]
    /\ hPermits = [m \in Msgs |-> max_concurrency]
    /\ upstream = {}

\* no lexical retrieval made
FtsIdle ==
    /\ ftsQuery = <<>> /\ ftsSafe = <<>> /\ ftsQueried = FALSE /\ ftsDone = FALSE
    /\ ftsStore = [p \in Profiles |-> [tags |-> {}, words |-> {}]]
    /\ ftsRows = <<>> /\ ftsRaised = FALSE

\* search_personas_advanced called with nothing: no section, and no row asked for
NoCrit ==
    [include_all |-> [c \in Categories |-> {}], include_any |-> [c \in Categories |-> {}],
     exclude |-> [c \in Categories |-> {}], limit |-> 0]

\* no tag search made
TagIdle ==
    /\ tgStore = [p \in Profiles |-> {}]
    /\ tgCrit = NoCrit
    /\ tgDone = FALSE
    /\ tgResult = <<>>

\* no ranking made
RankIdle ==
    /\ rkInput = <<>>
    /\ rkReply = <<>>
    /\ rkTopK = 0
    /\ rkDone = FALSE
    /\ rkScored = <<>>
    /\ rkOutput = <<>>
    /\ rkRaised = FALSE


\* PersonaSearchService.__init__: an empty cache, no search made
SearchIdle ==
    /\ svStore = [p \in Profiles |-> [tags |-> {}, words |-> {}]]
    /\ svCache = EmptyMap
    /\ svNow = 0
    /\ svCalls = 0
    /\ svFirst = NoSearch
    /\ svLast = NoSearch

\* no mapping made
MapIdle ==
    /\ mpStore = [p \in Profiles |-> [tags |-> {}, words |-> {}]]
    /\ mpReply = NoJson("text")
    /\ mpDone = FALSE
    /\ mpRaised = FALSE
    /\ mpOut = EmptyMapping

\* no reply handled
SelIdle ==
    /\ slPersonas = <<>>
    /\ slText = <<>>
    /\ slState = "nl_candidates"
    /\ slChosen = <<>>
    /\ slDone = FALSE
    /\ slRaised = FALSE
    /\ slFinal = <<>>

\* a conversation not started: no state, no data
DialogIdle ==
    /\ dgState = "none"
    /\ dgNl = <<>>
    /\ dgFl = <<>>
    /\ dgPreview = <<>>
    /\ dgSelected = {}
    /\ dgPage = 0
    /\ dgChosen = <<>>
    /\ dgLast = <<>>

\* no batch of scoring calls launched
BatchIdle ==
    /\ btInput = <<>>
    /\ btTopK = 0
    /\ btCall = <<>>
    /\ btReply = <<>>
    /\ btPermits = max_concurrency
    /\ btPc = "idle"
    /\ btScored = <<>>
    /\ btRanked = <<>>
    /\ btCacheSet = FALSE
    /\ btCached = <<>>
    /\ btReturned = <<>>

\* no description received
NlIdle ==
    /\ nqStore = <<>>
    /\ nqText = <<>>
    /\ nqPc = "idle"
    /\ nqCache = EmptyMap
    /\ nqEmptied = FALSE
    /\ nqPersonas = <<>>
    /\ nqShown = <<>>

\* no task uses the cache
LockIdle ==
    /\ lkStore = EmptyMap
    /\ lkOwner = 0
    /\ lkPc = <<>>
    /\ lkKey = <<>>
    /\ lkEntry = <<>>
    /\ lkNow = 0
    /\ lkLost = FALSE

\* no search started
LiveIdle ==
    /\ lvPc = "idle"
    /\ lvRound = 0
    /\ lvMine = "idle"
    /\ lvOthers = <<>>
    /\ lvPermits = max_concurrency
    /\ lvStale = 0

\* _infer_hard_filters not called
InferIdle ==
    /\ ihQuery = <<>>
    /\ ihDone = FALSE
    /\ ihRes = <<>>

\* no key built
KeyIdle ==
    /\ kyCall = <<>>
    /\ kyDone = FALSE
    /\ kyKey = <<>>

\* (end of the initial values)

InitCache == CacheIdle /\ GateIdle /\ HandlerIdle /\ FtsIdle /\ TagIdle /\ RankIdle /\ SearchIdle /\ MapIdle /\ SelIdle /\ DialogIdle /\ BatchIdle /\ NlIdle /\ LockIdle /\ LiveIdle /\ InferIdle /\ KeyIdle

\* the wall clock moves on between two calls
Tick ==
    /\ now < MaxTime
    /\ now' = now + 1
    /\ UNCHANGED <<cache, lastOp>>
    /\ UNCHANGED notCache

\* await cache.set(key, value, ttl_s)
DoSet ==
    \E k \in Keys, v \in Values, ttl \in 0..MaxTtl :
        /\ cache' = CacheSet(cache, k, v, ttl, now)
        /\ lastOp' = [op |-> "set", key |-> k, at |-> now, found |-> k \in DOMAIN cache,
                      expire_at |-> now + ttl, ret |-> None, value |-> v, ttl_s |-> ttl]
        /\ UNCHANGED now
        /\ UNCHANGED notCache

\* await cache.get(key)
DoGet ==
    \E k \in Keys :
        /\ cache' = CacheAfterGet(cache, k, now)
        /\ lastOp' = [op |-> "get", key |-> k, at |-> now, found |-> k \in DOMAIN cache,
                      expire_at |-> IF k \in DOMAIN cache THEN cache[k].expire_at ELSE 0,
                      ret |-> CacheGet(cache, k, now), value |-> None, ttl_s |-> 0]
        /\ UNCHANGED now
        /\ UNCHANGED notCache

NextCache == Tick \/ DoSet \/ DoGet

SpecCache == InitCache /\ [][NextCache]_vars

(***************************************************************************)
(* AsyncLLMClient.chat, one client, NumCalls concurrent callers            *)
(*                                                                         *)
(*   async with self._semaphore:                                           *)
(*       return await asyncio.wait_for(asyncio.to_thread(...), timeout_s)  *)
(***************************************************************************)

InitGate == CacheIdle /\ GateIdle /\ HandlerIdle /\ FtsIdle /\ TagIdle /\ RankIdle /\ SearchIdle /\ MapIdle /\ SelIdle /\ DialogIdle /\ BatchIdle /\ NlIdle /\ LockIdle /\ LiveIdle /\ InferIdle /\ KeyIdle

\* upstream requests that have started and have not ended
Executing == {c \in Calls : gThread[c]}

\* a caller enters chat and reaches the semaphore
CallChat(c) ==
    /\ gSt[c] = "idle"
    /\ gSt' = [gSt EXCEPT ![c] = "waiting"]
    /\ UNCHANGED <<gThread, permits>>
    /\ UNCHANGED notGate

\* async with self._semaphore: a permit is taken and the request is handed to
\* the executor (asyncio.to_thread)
Acquire(c) ==
    /\ gSt[c] = "waiting"
    /\ permits > 0
    /\ permits' = permits - 1
    /\ gSt' = [gSt EXCEPT ![c] = "submitted"]
    /\ UNCHANGED gThread
    /\ UNCHANGED notGate

\* a free worker thread picks the request up: self._client.chat starts
ThreadStart(c) ==
    /\ gSt[c] = "submitted"
    /\ Cardinality(Executing) < PoolWorkers
    /\ gSt' = [gSt EXCEPT ![c] = "running"]
    /\ gThread' = [gThread EXCEPT ![c] = TRUE]
    /\ UNCHANGED permits
    /\ UNCHANGED notGate

\* the request ends within the timeout, with a reply or with an upstream error;
\* wait_for passes it on and the with block releases the permit
Finish(c) ==
    /\ gSt[c] = "running"
    /\ \E r \in {"returned", "raised"} : gSt' = [gSt EXCEPT ![c] = r]
    /\ gThread' = [gThread EXCEPT ![c] = FALSE]
    /\ permits' = permits + 1
    /\ UNCHANGED notGate

\* (a variant: the timeout leaves the permit taken)
TimeoutKeepsPermit(c) ==
    /\ gSt[c] \in {"submitted", "running"}
    /\ gSt' = [gSt EXCEPT ![c] = "timedout"]
    /\ UNCHANGED <<gThread, permits>>
    /\ UNCHANGED notGate

\* wait_for's timeout fires: the awaited future is cancelled and TimeoutError
\* leaves the with block, which releases the permit. A request still queued in
\* the executor is dropped; one that a thread is executing cannot be stopped
\* and runs on.
Timeout(c) ==
    /\ gSt[c] \in {"submitted", "running"}
    /\ gSt' = [gSt EXCEPT ![c] = "timedout"]
    /\ permits' = permits + 1
    /\ UNCHANGED gThread
    /\ UNCHANGED notGate

\* the request of a caller that timed out ends at last
ThreadEnd(c) ==
    /\ gSt[c] = "timedout"
    /\ gThread[c]
    /\ gThread' = [gThread EXCEPT ![c] = FALSE]
    /\ UNCHANGED <<gSt, permits>>
    /\ UNCHANGED notGate

NextGate ==
    \E c \in Calls :
        \/ CallChat(c)
        \/ Acquire(c)
        \/ ThreadStart(c)
        \/ Finish(c)
        \/ Timeout(c)
        \/ ThreadEnd(c)

SpecGate == InitGate /\ [][NextGate]_vars

(***************************************************************************)
(* nl_query: the description search of one message, and the upstream       *)
(* requests it issues (cache misses; a hit issues none)                    *)
(*                                                                         *)
(*   llm = AsyncLLMClient()                                                *)
(*   info = await llm.preflight_check()                                    *)
(*   personas = await _search.search_by_description_fast(query, llm, ...)  *)
(*   if not personas:                                                      *)
(*       personas = await _search.search_by_description(query, llm, ...)   *)
(***************************************************************************)

InitHandler == CacheIdle /\ GateIdle /\ HandlerIdle /\ FtsIdle /\ TagIdle /\ RankIdle /\ SearchIdle /\ MapIdle /\ SelIdle /\ DialogIdle /\ BatchIdle /\ NlIdle /\ LockIdle /\ LiveIdle /\ InferIdle /\ KeyIdle

\* a request made through llm.chat / llm.preflight_check of the client the
\* handler of message m built: it holds a permit of that client's semaphore
\* and runs under wait_for
GatedCall(m, kind, idx) ==
    [msg |-> m, kind |-> kind, idx |-> idx, sem |-> m, timed |-> TRUE]

\* a request made on llm._client, the plain LLMClient, from the worker thread
\* of search_by_description
DirectCall(m, kind, idx) ==
    [msg |-> m, kind |-> kind, idx |-> idx, sem |-> NoSem, timed |-> FALSE]

InFlight(m) == {u \in upstream : u.msg = m}

\* llm = AsyncLLMClient(); await llm.preflight_check()
HStart(m) ==
    /\ hPc[m] = "idle"
    /\ hPermits[m] > 0
    /\ hPc' = [hPc EXCEPT ![m] = "preflight"]
    /\ hPermits' = [hPermits EXCEPT ![m] = @ - 1]
    /\ upstream' = upstream \cup {GatedCall(m, "preflight", 0)}
    /\ UNCHANGED <<hFts, hLeft>>
    /\ UNCHANGED notHandler

\* the preflight ends: an error or a timeout leaves nl_query, a reply starts
\* search_by_description_fast
HPreflightEnd(m) ==
    /\ hPc[m] = "preflight"
    /\ upstream' = upstream \ {GatedCall(m, "preflight", 0)}
    /\ hPermits' = [hPermits EXCEPT ![m] = @ + 1]
    /\ \E ok \in BOOLEAN : hPc' = [hPc EXCEPT ![m] = IF ok THEN "fast_fts" ELSE "failed"]
    /\ UNCHANGED <<hFts, hLeft>>
    /\ UNCHANGED notHandler

\* search_by_description_fast, step 1: fts_candidates and _apply_hard_filter.
\* Candidates left ("hits") go to _rerank_async; none left, because nothing
\* matched ("empty") or because the hard filter removed every match
\* ("filtered"), goes to the mapper, whose llm.chat is issued.
HFastFts(m) ==
    /\ hPc[m] = "fast_fts"
    /\ \E f \in {"hits", "filtered", "empty"} :
        /\ hFts' = [hFts EXCEPT ![m] = f]
        /\ IF f = "hits"
           THEN /\ \E n \in 1..MaxCands : hLeft' = [hLeft EXCEPT ![m] = n]
                /\ hPc' = [hPc EXCEPT ![m] = "fast_rank"]
                /\ UNCHANGED <<hPermits, upstream>>
           ELSE /\ hPermits[m] > 0
                /\ hPermits' = [hPermits EXCEPT ![m] = @ - 1]
                /\ upstream' = upstream \cup {GatedCall(m, "map", 0)}
                /\ hPc' = [hPc EXCEPT ![m] = "fast_map"]
                /\ UNCHANGED hLeft
    /\ UNCHANGED notHandler

\* the mapper's llm.chat ends. It is awaited outside any try, so an error or a
\* timeout leaves the search; a reply gives the fallback candidates: some go to
\* _rerank_async, none makes the fast search return [] and nl_query call
\* search_by_description.
HFastMapEnd(m) ==
    /\ hPc[m] = "fast_map"
    /\ upstream' = upstream \ {GatedCall(m, "map", 0)}
    /\ hPermits' = [hPermits EXCEPT ![m] = @ + 1]
    /\ \/ /\ hPc' = [hPc EXCEPT ![m] = "failed"]
          /\ UNCHANGED hLeft
       \/ /\ \E n \in 1..MaxCands : hLeft' = [hLeft EXCEPT ![m] = n]
          /\ hPc' = [hPc EXCEPT ![m] = "fast_rank"]
       \/ /\ hPc' = [hPc EXCEPT ![m] = "legacy_fts"]
          /\ UNCHANGED hLeft
    /\ UNCHANGED hFts
    /\ UNCHANGED notHandler

\* _rerank_async: asyncio.gather starts score(p) for every candidate; each
\* waits for a permit of llm's semaphore and issues its request
HFastRankStart(m) ==
    /\ hPc[m] = "fast_rank"
    /\ hLeft[m] > 0
    /\ hPermits[m] > 0
    /\ hPermits' = [hPermits EXCEPT ![m] = @ - 1]
    /\ upstream' = upstream \cup {GatedCall(m, "rank", hLeft[m])}
    /\ hLeft' = [hLeft EXCEPT ![m] = @ - 1]
    /\ UNCHANGED <<hPc, hFts>>
    /\ UNCHANGED notHandler

\* a scoring request ends (reply, error or timeout: score catches them all)
HFastRankEnd(m) ==
    /\ hPc[m] = "fast_rank"
    /\ \E u \in InFlight(m) :
        /\ upstream' = upstream \ {u}
        /\ hPermits' = [hPermits EXCEPT ![m] = @ + 1]
    /\ UNCHANGED <<hPc, hFts, hLeft>>
    /\ UNCHANGED notHandler

\* gather has every score: the ranking is returned, and it is not empty
HFastDone(m) ==
    /\ hPc[m] = "fast_rank"
    /\ hLeft[m] = 0
    /\ InFlight(m) = {}
    /\ hPc' = [hPc EXCEPT ![m] = "done"]
    /\ UNCHANGED <<hFts, hLeft, hPermits, upstream>>
    /\ UNCHANGED notHandler

\* search_by_description: asyncio.to_thread(search_by_description_with_fallback
\* (query, llm._client, ...)). Its fts_candidates finds what the fast search
\* found before the hard filter: matches go to llm_rerank, no match starts the
\* fallback with client.preflight_check().
HLegacyFts(m) ==
    /\ hPc[m] = "legacy_fts"
    /\ IF hFts[m] = "filtered"
       THEN /\ \E n \in 1..MaxCands : hLeft' = [hLeft EXCEPT ![m] = n]
            /\ hPc' = [hPc EXCEPT ![m] = "legacy_rank"]
            /\ UNCHANGED upstream
       ELSE /\ upstream' = upstream \cup {DirectCall(m, "preflight", 0)}
            /\ hPc' = [hPc EXCEPT ![m] = "legacy_preflight"]
            /\ UNCHANGED hLeft
    /\ UNCHANGED <<hFts, hPermits>>
    /\ UNCHANGED notHandler

\* client.preflight_check() returns (it swallows upstream errors) and
\* llm_map_description_to_filters issues client.chat
HLegacyPreflightEnd(m) ==
    /\ hPc[m] = "legacy_preflight"
    /\ upstream' = (upstream \ {DirectCall(m, "preflight", 0)})
                        \cup {DirectCall(m, "map", 0)}
    /\ hPc' = [hPc EXCEPT ![m] = "legacy_map"]
    /\ UNCHANGED <<hFts, hLeft, hPermits>>
    /\ UNCHANGED notHandler

\* the mapper's client.chat ends: an error leaves the search, a reply gives the
\* fallback candidates (some: llm_rerank; none: [] is returned)
HLegacyMapEnd(m) ==
    /\ hPc[m] = "legacy_map"
    /\ upstream' = upstream \ {DirectCall(m, "map", 0)}
    /\ \/ /\ hPc' = [hPc EXCEPT ![m] = "failed"]
          /\ UNCHANGED hLeft
       \/ /\ \E n \in 1..MaxCands : hLeft' = [hLeft EXCEPT ![m] = n]
          /\ hPc' = [hPc EXCEPT ![m] = "legacy_rank"]
       \/ /\ hPc' = [hPc EXCEPT ![m] = "done"]
          /\ UNCHANGED hLeft
    /\ UNCHANGED <<hFts, hPermits>>
    /\ UNCHANGED notHandler

\* llm_rerank: one client.chat per candidate, one after the other
HLegacyRankStart(m) ==
    /\ hPc[m] = "legacy_rank"
    /\ hLeft[m] > 0
    /\ InFlight(m) = {}
    /\ upstream' = upstream \cup {DirectCall(m, "rank", hLeft[m])}
    /\ hLeft' = [hLeft EXCEPT ![m] = @ - 1]
    /\ UNCHANGED <<hPc, hFts, hPermits>>
    /\ UNCHANGED notHandler

\* the scoring request ends (reply or error: llm_rerank catches it)
HLegacyRankEnd(m) ==
    /\ hPc[m] = "legacy_rank"
    /\ \E u \in InFlight(m) : upstream' = upstream \ {u}
    /\ UNCHANGED <<hPc, hFts, hLeft, hPermits>>
    /\ UNCHANGED notHandler

\* llm_rerank has scored every candidate: the ranking is returned
HLegacyDone(m) ==
    /\ hPc[m] = "legacy_rank"
    /\ hLeft[m] = 0
    /\ InFlight(m) = {}
    /\ hPc' = [hPc EXCEPT ![m] = "done"]
    /\ UNCHANGED <<hFts, hLeft, hPermits, upstream>>
    /\ UNCHANGED notHandler

NextHandler ==
    \E m \in Msgs :
        \/ HStart(m)
        \/ HPreflightEnd(m)
        \/ HFastFts(m)
        \/ HFastMapEnd(m)
        \/ HFastRankStart(m)
        \/ HFastRankEnd(m)
        \/ HFastDone(m)
        \/ HLegacyFts(m)
        \/ HLegacyPreflightEnd(m)
        \/ HLegacyMapEnd(m)
        \/ HLegacyRankStart(m)
        \/ HLegacyRankEnd(m)
        \/ HLegacyDone(m)

SpecHandler == InitHandler /\ [][NextHandler]_vars


(***************************************************************************)
(* fts_candidates on every raw query text up to MaxLen characters          *)
(***************************************************************************)

InitFts ==
    /\ CacheIdle /\ GateIdle /\ HandlerIdle /\ TagIdle /\ RankIdle /\ SearchIdle /\ MapIdle /\ SelIdle /\ DialogIdle /\ BatchIdle /\ NlIdle /\ LockIdle /\ LiveIdle /\ InferIdle /\ KeyIdle
    /\ ftsQuery \in Texts
    /\ ftsSafe = <<>>
    /\ ftsQueried = FALSE
    /\ ftsDone = FALSE
    /\ ftsStore \in Stores
    /\ ftsRows = <<>>
    /\ ftsRaised = FALSE

\* fts_candidates(query, k): safe = fts_sanitize_query(query); an empty safe
\* returns [] at once, any other is sent to the store as the MATCH argument;
\* the store answers with rows or rejects the argument
FtsCandidates ==
    /\ ~ftsDone
    /\ ftsDone' = TRUE
    /\ \E safe \in {fts_sanitize_query(ftsQuery)}, k \in 1..NumProfiles :
        /\ ftsSafe' = safe
        /\ ftsQueried' = (safe # <<>>)
        /\ ftsRaised' = (safe # <<>> /\ FtsSyntaxError(safe))
        /\ ftsRows' = IF safe = <<>> \/ FtsSyntaxError(safe) THEN <<>>
                      ELSE fts_candidates(ftsStore, ftsQuery, k)
    /\ UNCHANGED <<ftsQuery, ftsStore>>
    /\ UNCHANGED notFts

NextFts == FtsCandidates

SpecFts == InitFts /\ [][NextFts]_vars


(***************************************************************************)
(* search_personas_advanced on every store of NumProfiles profiles and     *)
(* every criteria of up to MaxCritPairs pairs                              *)
(***************************************************************************)

Criteria ==
    {cr \in [include_all : SectionMaps, include_any : SectionMaps,
             exclude : SectionMaps, limit : 0..(NumProfiles + 1)] :
        Cardinality(PairsOf(cr.include_all)) + Cardinality(PairsOf(cr.include_any))
            + Cardinality(PairsOf(cr.exclude)) <= MaxCritPairs}

InitTag ==
    /\ CacheIdle /\ GateIdle /\ HandlerIdle /\ FtsIdle /\ RankIdle /\ SearchIdle /\ MapIdle /\ SelIdle /\ DialogIdle /\ BatchIdle /\ NlIdle /\ LockIdle /\ LiveIdle /\ InferIdle /\ KeyIdle
    /\ tgStore \in [Profiles -> SUBSET TaxPairs]
    /\ tgCrit = NoCrit
    /\ tgDone = FALSE
    /\ tgResult = <<>>

\* search_personas_advanced(include_all, include_any, exclude, None, limit)
TagSearch ==
    /\ ~tgDone
    /\ tgDone' = TRUE
    /\ \E cr \in Criteria :
        /\ tgCrit' = cr
        /\ tgResult' = search_personas_advanced(tgStore, cr)
    /\ UNCHANGED tgStore
    /\ UNCHANGED notTag

NextTag == TagSearch

SpecTag == InitTag /\ [][NextTag]_vars


(***************************************************************************)
(* The ranker on every list of up to MaxRanked distinct candidates, every  *)
(* outcome of every scoring call and every top_k                           *)
(***************************************************************************)

CandidateLists ==
    {l \in UNION {[1..n -> RankIds] : n \in 0..MaxRanked} :
        \A i, j \in 1..Len(l) : i # j => l[i] # l[j]}

InitRank ==
    /\ CacheIdle /\ GateIdle /\ HandlerIdle /\ FtsIdle /\ TagIdle /\ SearchIdle /\ MapIdle /\ SelIdle /\ DialogIdle /\ BatchIdle /\ NlIdle /\ LockIdle /\ LiveIdle /\ InferIdle /\ KeyIdle
    /\ rkInput \in CandidateLists
    /\ rkReply \in [1..Len(rkInput) -> Outcomes]
    /\ rkTopK = 0
    /\ rkDone = FALSE
    /\ rkScored = <<>>
    /\ rkOutput = <<>>
    /\ rkRaised = FALSE

\* await self._rerank_async(llm, query, personas, top_k): the requests run
\* concurrently, a timeout is wait_for's
RerankAsync ==
    /\ ~rkDone
    /\ rkDone' = TRUE
    /\ \E r \in {RankScored(rkInput, rkReply)}, top_k \in 0..MaxRanked :
        /\ rkTopK' = top_k
        /\ rkRaised' = r.raised
        /\ rkScored' = r.results
        /\ rkOutput' = IF r.raised THEN <<>> ELSE RankOutput(r.results, top_k)
    /\ UNCHANGED <<rkInput, rkReply>>
    /\ UNCHANGED notRank

\* llm_rerank(client, query, personas, top_k): the requests run one after the
\* other, a timeout is the HTTP client's
LlmRerank ==
    /\ ~rkDone
    /\ rkDone' = TRUE
    /\ \E r \in {RankScored(rkInput, rkReply)}, top_k \in 0..MaxRanked :
        /\ rkTopK' = top_k
        /\ rkRaised' = r.raised
        /\ rkScored' = r.results
        /\ rkOutput' = IF r.raised THEN <<>> ELSE RankOutput(r.results, top_k)
    /\ UNCHANGED <<rkInput, rkReply>>
    /\ UNCHANGED notRank

NextRank == RerankAsync \/ LlmRerank

SpecRank == InitRank /\ [][NextRank]_vars


(***************************************************************************)
(* Description searches on one PersonaSearchService, one after the other   *)
(***************************************************************************)

InitSearch ==
    /\ CacheIdle /\ GateIdle /\ HandlerIdle /\ FtsIdle /\ TagIdle /\ RankIdle /\ MapIdle /\ SelIdle /\ DialogIdle /\ BatchIdle /\ NlIdle /\ LockIdle /\ LiveIdle /\ InferIdle /\ KeyIdle
    /\ svStore \in Stores
    /\ svCache = EmptyMap
    /\ svNow = 0
    /\ svCalls = 0
    /\ svFirst = NoSearch
    /\ svLast = NoSearch

\* the wall clock moves on between two searches
SearchTick ==
    /\ svNow + 1000 <= MaxClock
    /\ svNow' = svNow + 1000
    /\ UNCHANGED <<svStore, svCache, svCalls, svFirst, svLast>>
    /\ UNCHANGED notSearch

\* once a search has returned, the searches that follow repeat its query,
\* k_fts and top_k
Repeats(query, k_fts, top_k) ==
    svFirst.done =>
        svFirst.query = query /\ svFirst.k_fts = k_fts /\ svFirst.top_k = top_k

\* a search with these arguments ended with e
SearchEnded(op, query, k_fts, top_k, e) ==
    LET call == [done |-> TRUE, op |-> op, query |-> query, k_fts |-> k_fts,
                 top_k |-> top_k, at |-> svNow, hit |-> e.hit, raised |-> e.raised,
                 result |-> e.result, mapKind |-> e.mapKind,
                 mapReturned |-> e.mapReturned, mapped |-> e.mapped,
                 mapCalls |-> e.mapCalls, rankCalls |-> e.rankCalls,
                 repeat |-> /\ svFirst.done
                            /\ svFirst.op = op /\ svFirst.query = query
                            /\ svFirst.k_fts = k_fts /\ svFirst.top_k = top_k
                            /\ svNow - svFirst.at < CacheTtl]
    IN  /\ svCache' = e.cache
        /\ svLast' = call
        /\ svFirst' = IF ~svFirst.done /\ ~e.raised THEN call ELSE svFirst
        /\ svCalls' = svCalls + 1
        /\ UNCHANGED <<svStore, svNow>>
        /\ UNCHANGED notSearch

\* the search found the list under its key: return cached
SearchHit(op, key, query, k_fts, top_k) ==
    SearchEnded(op, query, k_fts, top_k,
                Ended(TRUE, FALSE, CacheGet(svCache, key, svNow),
                      CacheAfterGet(svCache, key, svNow), "none", FALSE, EmptyMapping, 0))

\* await service.search_by_description_fast(query, llm, k_fts, top_k); mapO is
\* what the mapping call comes to, rankO what each profile's scoring call
\* comes to
SearchFast ==
    \E query \in SearchQueries, a \in SearchArgs, mapO \in MapOutcomes,
       rankO \in [Profiles -> ScoreOutcomes] :
      \E key \in {SearchKey("nl2", query, a[1], a[2])} :
        /\ svCalls < MaxSearchCalls
        /\ Repeats(query, a[1], a[2])
        /\ IF CachedList(svCache, key, svNow)
           THEN SearchHit("fast", key, query, a[1], a[2])
           ELSE
             \E got \in {CacheAfterGet(svCache, key, svNow)},
                hard \in {infer_hard_filters(query)} :
             \E first \in {apply_hard_filter(svStore, hard,
                                             fts_candidates(svStore, query, a[1]))} :
             \E m \in {map_description_to_filters(svStore, mapO)} :
             \E mapKind \in {IF first = <<>> THEN mapO.kind ELSE "none"} :
               IF first = <<>> /\ m.raised
               THEN SearchEnded("fast", query, a[1], a[2],
                        Ended(FALSE, TRUE, <<>>, got, mapKind, FALSE, EmptyMapping, 0))
               ELSE
                 \E candidates \in {IF first = <<>>
                                    THEN fast_fallback(svStore, hard, m.mapped, a[1])
                                    ELSE first} :
                   IF candidates = <<>>
                   THEN SearchEnded("fast", query, a[1], a[2],
                            Ended(FALSE, FALSE, <<>>, got, mapKind, first = <<>>,
                                  m.mapped, 0))
                   ELSE
                     \E r \in {RankScored(candidates,
                                   [i \in 1..Len(candidates) |-> rankO[candidates[i]]])} :
                     \E ranked \in {RankOutput(r.results, a[2])} :
                       SearchEnded("fast", query, a[1], a[2],
                           Ended(FALSE, r.raised, ranked,
                                 IF r.raised THEN got
                                 ELSE CacheSet(got, key, ranked, CacheTtl, svNow),
                                 mapKind, first = <<>>, m.mapped, Len(candidates)))

\* await service.search_by_description(query, llm, k_fts, top_k), which runs
\* search_by_description_with_fallback
SearchLegacy ==
    \E query \in SearchQueries, a \in SearchArgs, mapO \in MapOutcomes,
       rankO \in [Profiles -> ScoreOutcomes] :
      \E key \in {SearchKey("nl", query, a[1], a[2])} :
        /\ svCalls < MaxSearchCalls
        /\ Repeats(query, a[1], a[2])
        /\ IF CachedList(svCache, key, svNow)
           THEN SearchHit("legacy", key, query, a[1], a[2])
           ELSE
             \E got \in {CacheAfterGet(svCache, key, svNow)},
                first \in {fts_candidates(svStore, query, a[1])} :
             \E m \in {map_description_to_filters(svStore, mapO)} :
             \E mapKind \in {IF first = <<>> THEN mapO.kind ELSE "none"} :
               IF first = <<>> /\ m.raised
               THEN SearchEnded("legacy", query, a[1], a[2],
                        Ended(FALSE, TRUE, <<>>, got, mapKind, FALSE, EmptyMapping, 0))
               ELSE
                 \E candidates \in {IF first = <<>>
                                    THEN legacy_fallback(svStore, m.mapped, a[1])
                                    ELSE first} :
                   IF candidates = <<>>
                   THEN SearchEnded("legacy", query, a[1], a[2],
                            Ended(FALSE, FALSE, <<>>,
                                  CacheSet(got, key, <<>>, CacheTtl, svNow),
                                  mapKind, first = <<>>, m.mapped, 0))
                   ELSE
                     \E r \in {RankScored(candidates,
                                   [i \in 1..Len(candidates) |-> rankO[candidates[i]]])} :
                     \E res \in {RankedOrCandidates(RankOutput(r.results, a[2]),
                                                    candidates, a[2])} :
                       SearchEnded("legacy", query, a[1], a[2],
                           Ended(FALSE, r.raised, IF r.raised THEN <<>> ELSE res,
                                 IF r.raised THEN got
                                 ELSE CacheSet(got, key, res, CacheTtl, svNow),
                                 mapKind, first = <<>>, m.mapped, Len(candidates)))

NextSearch == SearchTick \/ SearchFast \/ SearchLegacy

SpecSearch == InitSearch /\ [][NextSearch]_vars

(***************************************************************************)
(* The mapper on every taxonomy of the stores and every reply: no JSON, a  *)
(* JSON value that is no object, an object whose members have any shape   *)
(***************************************************************************)

MaxTagEntries == 2

\* categories and values a reply may name: "hair" is a category of no
\* taxonomy, "robot" a value of none
ReplyCategories == Categories \cup {"hair"}

ReplyValues == {"female", "18-24", "robot"}

TagEntries ==
    [cat : ReplyCategories, val : ReplyValues, as : {"str"}]
        \cup [cat : ReplyCategories, val : {""}, as : {"other", "scalar"}]

\* the contents of a "tags" object: the value under a category is a list or
\* it is not
TagObjects ==
    {es \in SUBSET TagEntries :
        /\ Cardinality(es) <= MaxTagEntries
        /\ \A e, f \in es : e.cat = f.cat => (e.as = "scalar") = (f.as = "scalar")}

Members ==
    {Absent, ListOf(<<Str(<<"a">>), NotStr>>), StringOf(<<"a", "b">>), NumberMember}

MapReplies ==
    {NoJson(k) : k \in {"timeout", "error", "text"}}
        \cup {NotObject(t) : t \in {"list", "number", "string", "null"}}
        \cup {JsonObject("object", es, kw, alt) :
                es \in TagObjects, kw \in Members, alt \in Members}
        \cup {JsonObject(sh, {}, kw, alt) :
                sh \in {"absent", "list", "string", "number"},
                kw \in Members, alt \in Members}

InitMap ==
    /\ CacheIdle /\ GateIdle /\ HandlerIdle /\ FtsIdle /\ TagIdle /\ RankIdle /\ SearchIdle /\ SelIdle /\ DialogIdle /\ BatchIdle /\ NlIdle /\ LockIdle /\ LiveIdle /\ InferIdle /\ KeyIdle
    /\ mpStore \in Stores
    /\ mpReply \in MapReplies
    /\ mpDone = FALSE
    /\ mpRaised = FALSE
    /\ mpOut = EmptyMapping

\* _llm_map_description_to_filters_async(llm, query)
MapCall ==
    /\ ~mpDone
    /\ mpDone' = TRUE
    /\ \E m \in {map_description_to_filters(mpStore, mpReply)} :
        /\ mpRaised' = m.raised
        /\ mpOut' = m.mapped
    /\ UNCHANGED <<mpStore, mpReply>>
    /\ UNCHANGED notMap

NextMap == MapCall

SpecMap == InitMap /\ [][NextMap]_vars

(***************************************************************************)
(* The selector on every list of up to MaxShown candidates and every reply *)
(* of up to MaxTokens tokens                                               *)
(***************************************************************************)

MaxShown == 12

MaxTokens == 2

DefaultTitle == <<"x", "y", "z">>

\* the titles the first candidate may have: the title of the others, and one
\* with a digit
SelTitles == {DefaultTitle, <<"a", " ", "2">>}

\* the list shown: profile ids are distinct
ShownLists ==
    {[i \in 1..n |-> [pid |-> i, title |-> IF i = 1 THEN t ELSE DefaultTitle]] :
        n \in 0..MaxShown, t \in SelTitles}

\* what the user writes between commas: indices, ranges with a hyphen and
\* with an en dash, a range with no numbers, titles, near-titles, words
SelTokens ==
    {<<"1">>, <<"1", "-", "2">>, <<"2", EnDash, "3">>, <<"-">>, <<"a", " ", "2">>,
     <<"x", "y", "z">>, <<"x", "y", "q">>, <<"q", "q", "q">>, <<"pe", "ie", "er", "ve">>, <<" ", "B">>}

RECURSIVE JoinComma(_)
JoinComma(toks) ==
    IF toks = <<>> THEN <<>>
    ELSE IF Len(toks) = 1 THEN toks[1]
    ELSE toks[1] \o <<",">> \o JoinComma(Tail(toks))

Replies ==
    {JoinComma(toks) : toks \in UNION {[1..k -> SelTokens] : k \in 0..MaxTokens}}

\* the selection of an earlier round, still stored
OldChosen == <<[pid |-> 0, title |-> DefaultTitle]>>

InitSel ==
    /\ CacheIdle /\ GateIdle /\ HandlerIdle /\ FtsIdle /\ TagIdle /\ RankIdle /\ SearchIdle /\ MapIdle /\ DialogIdle /\ BatchIdle /\ NlIdle /\ LockIdle /\ LiveIdle /\ InferIdle /\ KeyIdle
    /\ slPersonas \in ShownLists
    /\ slText \in Replies
    /\ slState = "nl_candidates"
    /\ slChosen \in {<<>>, OldChosen}
    /\ slDone = FALSE
    /\ slRaised = FALSE
    /\ slFinal = <<>>

\* choose_text_candidates(message, state)
SelectReply ==
    /\ ~slDone
    /\ slDone' = TRUE
    /\ \E r \in {choose_text_candidates(slPersonas, slText)} :
        /\ slRaised' = r.raised
        /\ slFinal' = r.final
        /\ slChosen' = IF r.understood THEN r.final ELSE slChosen
        /\ slState' = IF r.understood THEN "chat" ELSE slState
    /\ UNCHANGED <<slPersonas, slText>>
    /\ UNCHANGED notSel

NextSel == SelectReply

SpecSel == InitSel /\ [][NextSel]_vars

(***************************************************************************)
(* One conversation: /start, the mode buttons, description searches and    *)
(* filter searches in any order, replies and button presses on the         *)
(* candidates shown. Routers are tried in the order main.py includes them: *)
(* start, nl_search, filter_search, candidates, chat.                      *)
(***************************************************************************)

MaxPick == 2

\* len(personas) >= 10: examples are shown and the state stays nl_query
PreviewFrom == 10

\* personas[:5]
PreviewLen == 5

Entry(p) == [pid |-> p, title |-> DefaultTitle]

\* what a search returns: nothing, one profile, two others, a long list
ResultLists ==
    {<<>>, <<Entry(1)>>, <<Entry(2), Entry(3)>>, [i \in 1..PreviewFrom |-> Entry(i)]}

\* what the user writes
DialogTexts == {<<"1">>, <<"2">>, <<"x", "y", "z">>, <<"q", "q", "q">>}

\* the pages a page button names
Pages == {0, 1}

\* personas = data.get("nl_personas") or data.get("fl_personas") or []
PersonasRead == IF dgNl # <<>> THEN dgNl ELSE dgFl

\* nl_query, the examples shown before: the number in the text, then an
\* ordinal, then the first example whose title holds every word of 3 letters
\* or more
preview_ord_map ==
    <<<<<<"pe", "ie", "er", "ve">>, 1>>, <<<<"ve", "te", "oh", "er">>, 2>>,
      <<<<"te", "er", "ie", "te", "soft">>, 3>>, <<<<"che", "ie", "te", "ve">>, 4>>,
      <<<<"pe", "ya", "te">>, 5>>>>

ChosenFromPreview(preview, query) ==
    LET text_l == Lower(query)
        num_only == DigitsOf(text_l)
        n == Len(preview)
        ords == SelectSeq(preview_ord_map, LAMBDA e : IsPrefix(e[1], text_l) /\ e[2] <= n)
        toks == SelectSeq(SplitWords(text_l, <<>>, <<>>), LAMBDA t : Len(t) >= 3)
        hits == SelectSeq(preview, LAMBDA c :
                    \A i \in 1..Len(toks) : Contains(Lower(c.title), toks[i]))
    IN  IF num_only # <<>> /\ 1 <= IntVal(num_only) /\ IntVal(num_only) <= n
        THEN <<preview[IntVal(num_only)]>>
        ELSE IF ords # <<>> THEN <<preview[ords[1][2]]>>
        ELSE IF (\E i \in 1..Len(text_l) : IsAlpha(text_l[i])) /\ hits # <<>>
        THEN <<hits[1]>>
        ELSE <<>>

InitDialog ==
    /\ CacheIdle /\ GateIdle /\ HandlerIdle /\ FtsIdle /\ TagIdle /\ RankIdle /\ SearchIdle /\ MapIdle /\ SelIdle /\ BatchIdle /\ NlIdle /\ LockIdle /\ LiveIdle /\ InferIdle /\ KeyIdle
    /\ DialogIdle

\* cmd_start (/start, in any state) and on_start_go (the button start:go)
DgStart ==
    /\ dgState' = "mode_choice"
    /\ UNCHANGED <<dgNl, dgFl, dgPreview, dgSelected, dgPage, dgChosen, dgLast>>
    /\ UNCHANGED notDialog

\* on_mode_choice: the buttons mode:nl and mode:filters, in any state
DgModeChoice ==
    /\ dgState # "none"
    /\ \E mode \in {"nl", "filters"} :
        dgState' = IF mode = "nl" THEN "nl_query" ELSE "filter_intro"
    /\ UNCHANGED <<dgNl, dgFl, dgPreview, dgSelected, dgPage, dgChosen, dgLast>>
    /\ UNCHANGED notDialog

\* refine_retry / on_retry (the button refine:retry; nl_search's handler is
\* tried first and answers it)
DgRetry ==
    /\ dgState # "none"
    /\ dgState' = "nl_query"
    /\ UNCHANGED <<dgNl, dgFl, dgPreview, dgSelected, dgPage, dgChosen, dgLast>>
    /\ UNCHANGED notDialog

\* filter_intro: the catalogue is answered
DgFilterIntro ==
    /\ dgState = "filter_intro"
    /\ dgState' = "filter_collect"
    /\ UNCHANGED <<dgNl, dgFl, dgPreview, dgSelected, dgPage, dgChosen, dgLast>>
    /\ UNCHANGED notDialog

\* nl_query on a message that picks one of the examples shown before
DgPreviewPick ==
    /\ dgState = "nl_query"
    /\ dgPreview # <<>>
    /\ \E query \in DialogTexts :
        /\ ChosenFromPreview(dgPreview, query) # <<>>
        /\ dgChosen' = ChosenFromPreview(dgPreview, query)
    /\ dgState' = "chat"
    /\ dgPreview' = <<>>
    /\ UNCHANGED <<dgNl, dgFl, dgSelected, dgPage, dgLast>>
    /\ UNCHANGED notDialog

\* nl_query on a message that is searched for: search_by_description_fast,
\* then search_by_description if that gave nothing
DgDescriptionSearch ==
    /\ dgState = "nl_query"
    /\ \E query \in DialogTexts, personas \in ResultLists :
        /\ dgPreview # <<>> => ChosenFromPreview(dgPreview, query) = <<>>
        /\ dgLast' = personas
        /\ IF personas = <<>>
           THEN UNCHANGED <<dgState, dgNl, dgPreview, dgSelected, dgPage>>
           ELSE IF Len(personas) >= PreviewFrom
           THEN /\ dgPreview' = SubSeq(personas, 1, PreviewLen)
                /\ dgState' = "nl_query"
                /\ UNCHANGED <<dgNl, dgSelected, dgPage>>
           ELSE /\ dgNl' = personas
                /\ dgPage' = 0
                /\ dgSelected' = {}
                /\ dgState' = "nl_candidates"
                /\ UNCHANGED dgPreview
    /\ UNCHANGED <<dgFl, dgChosen>>
    /\ UNCHANGED notDialog

\* filter_collect: search_by_filters(..., limit=500)
DgFilterSearch ==
    /\ dgState = "filter_collect"
    /\ \E personas \in ResultLists :
        /\ dgLast' = personas
        /\ IF personas = <<>>
           THEN UNCHANGED <<dgState, dgFl>>
           ELSE /\ dgFl' = personas
                /\ dgState' = "filter_candidates"
    /\ UNCHANGED <<dgNl, dgPreview, dgSelected, dgPage, dgChosen>>
    /\ UNCHANGED notDialog

\* choose_text_candidates: a reply in a candidates state
DgReply ==
    /\ dgState \in {"nl_candidates", "filter_candidates"}
    /\ \E text \in DialogTexts :
        \E r \in {choose_text_candidates(PersonasRead, text)} :
            /\ ~r.raised
            /\ dgChosen' = IF r.understood THEN r.final ELSE dgChosen
            /\ dgState' = IF r.understood THEN "chat" ELSE dgState
    /\ UNCHANGED <<dgNl, dgFl, dgPreview, dgSelected, dgPage, dgLast>>
    /\ UNCHANGED notDialog

\* on_page: a page button
DgPage ==
    /\ dgState \in {"nl_candidates", "filter_candidates"}
    /\ \E page \in Pages : dgPage' = page
    /\ UNCHANGED <<dgState, dgNl, dgFl, dgPreview, dgSelected, dgChosen, dgLast>>
    /\ UNCHANGED notDialog

\* on_pick: a candidate's button, pressed again it takes the mark off
DgPick ==
    /\ dgState \in {"nl_candidates", "filter_candidates"}
    /\ \E idx \in 1..MaxPick :
        dgSelected' = IF idx \in dgSelected THEN dgSelected \ {idx}
                      ELSE dgSelected \cup {idx}
    /\ UNCHANGED <<dgState, dgNl, dgFl, dgPreview, dgPage, dgChosen, dgLast>>
    /\ UNCHANGED notDialog

\* on_clear
DgClear ==
    /\ dgState \in {"nl_candidates", "filter_candidates"}
    /\ dgSelected' = {}
    /\ UNCHANGED <<dgState, dgNl, dgFl, dgPreview, dgPage, dgChosen, dgLast>>
    /\ UNCHANGED notDialog

\* on_done: chosen = [personas[i - 1] for i in sorted(selected)
\* if 1 <= i <= len(personas)]
DgDone ==
    /\ dgState \in {"nl_candidates", "filter_candidates"}
    /\ dgSelected # {}
    /\ \E idx \in {SelectSeq([i \in 1..MaxPick |-> i],
                             LAMBDA i : i \in dgSelected /\ i <= Len(PersonasRead))} :
        dgChosen' = [k \in 1..Len(idx) |-> PersonasRead[idx[k]]]
    /\ dgState' = "chat"
    /\ UNCHANGED <<dgNl, dgFl, dgPreview, dgSelected, dgPage, dgLast>>
    /\ UNCHANGED notDialog

\* chat_controls: the button chat:finish
DgChatFinish ==
    /\ dgState # "none"
    /\ dgState' = "ending"
    /\ UNCHANGED <<dgNl, dgFl, dgPreview, dgSelected, dgPage, dgChosen, dgLast>>
    /\ UNCHANGED notDialog

NextDialog ==
    \/ DgStart
    \/ DgModeChoice
    \/ DgRetry
    \/ DgFilterIntro
    \/ DgPreviewPick
    \/ DgDescriptionSearch
    \/ DgFilterSearch
    \/ DgReply
    \/ DgPage
    \/ DgPick
    \/ DgClear
    \/ DgDone
    \/ DgChatFinish

SpecDialog == InitDialog /\ [][NextDialog]_vars

(***************************************************************************)
(* Step 3 of search_by_description_fast, one step per scoring call: the    *)
(* score coroutines of _rerank_async run concurrently under asyncio.gather,*)
(* then the sort, the cut to top_k, the cache write and the return         *)
(***************************************************************************)

\* what a scoring call of the batch comes to
BatchOutcomes ==
    {[kind |-> "text", txt |-> <<"1">>], [kind |-> "text", txt |-> <<"0", ",", "5">>],
     [kind |-> "error", txt |-> <<>>], [kind |-> "timeout", txt |-> <<>>]}

\* a scoring call that has not ended
NoOutcome == [kind |-> "none", txt |-> <<>>]

\* (a variant: the wait ends with the first score)
GatherFirstCompleted(call) == \E i \in 1..Len(call) : call[i] = "done"

\* results = await asyncio.gather(*[score(p) for p in personas]): the await
\* ends when every score coroutine has returned
GatherComplete(call) == \A i \in 1..Len(call) : call[i] = "done"

InitBatch ==
    /\ CacheIdle /\ GateIdle /\ HandlerIdle /\ FtsIdle /\ TagIdle /\ RankIdle /\ SearchIdle /\ MapIdle /\ SelIdle /\ DialogIdle /\ NlIdle /\ LockIdle /\ LiveIdle /\ InferIdle /\ KeyIdle
    /\ btInput \in {[i \in 1..n |-> i] : n \in 1..MaxRanked}
    /\ btTopK \in 1..MaxRanked
    /\ btCall = [i \in 1..Len(btInput) |-> "pending"]
    /\ btReply = [i \in 1..Len(btInput) |-> NoOutcome]
    /\ btPermits = max_concurrency
    /\ btPc = "gather"
    /\ btScored = <<>>
    /\ btRanked = <<>>
    /\ btCacheSet = FALSE
    /\ btCached = <<>>
    /\ btReturned = <<>>

\* score(p) enters llm.chat: async with self._semaphore, then the request
BtStart(i) ==
    /\ btPc = "gather"
    /\ btCall[i] = "pending"
    /\ btPermits > 0
    /\ btCall' = [btCall EXCEPT ![i] = "running"]
    /\ btPermits' = btPermits - 1
    /\ UNCHANGED <<btInput, btTopK, btReply, btPc, btScored, btRanked, btCacheSet,
                   btCached, btReturned>>
    /\ UNCHANGED notBatch

\* the scoring call ends: a reply, an upstream error or wait_for's timeout;
\* the permit is released and score returns
BtEnd(i) ==
    /\ btPc = "gather"
    /\ btCall[i] = "running"
    /\ \E o \in BatchOutcomes : btReply' = [btReply EXCEPT ![i] = o]
    /\ btCall' = [btCall EXCEPT ![i] = "done"]
    /\ btPermits' = btPermits + 1
    /\ UNCHANGED <<btInput, btTopK, btPc, btScored, btRanked, btCacheSet, btCached,
                   btReturned>>
    /\ UNCHANGED notBatch

\* gather returns; results.sort(...); return [p for _, p in results[:top_k]]
BtSort ==
    /\ btPc = "gather"
    /\ GatherComplete(btCall)
    /\ \E r \in {RankScored(btInput, btReply)} :
        /\ btScored' = r.results
        /\ btRanked' = RankOutput(r.results, btTopK)
    /\ btPc' = "ranked"
    /\ UNCHANGED <<btInput, btTopK, btCall, btReply, btPermits, btCacheSet, btCached,
                   btReturned>>
    /\ UNCHANGED notBatch

\* await self._cache.set(key, ranked, ttl_s=1800.0)
BtCacheWrite ==
    /\ btPc = "ranked"
    /\ btCacheSet' = TRUE
    /\ btCached' = btRanked
    /\ btPc' = "cached"
    /\ UNCHANGED <<btInput, btTopK, btCall, btReply, btPermits, btScored, btRanked,
                   btReturned>>
    /\ UNCHANGED notBatch

\* return ranked
BtReturn ==
    /\ btPc = "cached"
    /\ btReturned' = btRanked
    /\ btPc' = "returned"
    /\ UNCHANGED <<btInput, btTopK, btCall, btReply, btPermits, btScored, btRanked,
                   btCacheSet, btCached>>
    /\ UNCHANGED notBatch

NextBatch ==
    \/ \E i \in 1..Len(btInput) : BtStart(i)
    \/ \E i \in 1..Len(btInput) : BtEnd(i)
    \/ BtSort
    \/ BtCacheWrite
    \/ BtReturn

SpecBatch == InitBatch /\ [][NextBatch]_vars

(***************************************************************************)
(* nl_query from the search on: the fast search, the legacy search when    *)
(* the fast one gave nothing, and what is presented to the user            *)
(***************************************************************************)

InitNl ==
    /\ CacheIdle /\ GateIdle /\ HandlerIdle /\ FtsIdle /\ TagIdle /\ RankIdle /\ SearchIdle /\ MapIdle /\ SelIdle /\ DialogIdle /\ BatchIdle /\ LockIdle /\ LiveIdle /\ InferIdle /\ KeyIdle
    /\ nqStore \in Stores
    /\ nqText \in SearchQueries
    /\ nqPc = "start"
    /\ nqCache = EmptyMap
    /\ nqEmptied = FALSE
    /\ nqPersonas = <<>>
    /\ nqShown = <<>>

\* personas = await _search.search_by_description_fast(query, llm, k_fts=40, top_k=12)
NqFast ==
    /\ nqPc = "start"
    /\ \E mapO \in MapOutcomes, rankO \in [Profiles -> ScoreOutcomes] :
       \E query \in {Strip(nqText)} :
       \E key \in {SearchKey("nl2", query, 40, 12)}, hard \in {infer_hard_filters(query)},
          lexical \in {fts_candidates(nqStore, query, 40)} :
       \E first \in {apply_hard_filter(nqStore, hard, lexical)},
          m \in {map_description_to_filters(nqStore, mapO)} :
         IF first = <<>> /\ m.raised
         THEN /\ nqPc' = "raised"
              /\ UNCHANGED <<nqCache, nqEmptied, nqPersonas>>
         ELSE
           \E merged \in {IF first = <<>> THEN fast_combined(nqStore, hard, m.mapped, 40)
                          ELSE <<>>} :
           \E candidates \in {IF first = <<>> THEN apply_hard_filter(nqStore, hard, merged)
                              ELSE first} :
           \E r \in {RankScored(candidates,
                         [i \in 1..Len(candidates) |-> rankO[candidates[i]]])} :
             /\ nqEmptied' = (candidates = <<>> /\ (lexical # <<>> \/ merged # <<>>))
             /\ nqPersonas' = IF candidates = <<>> \/ r.raised THEN <<>>
                              ELSE RankOutput(r.results, 12)
             /\ nqCache' = IF candidates = <<>> \/ r.raised THEN nqCache
                           ELSE CacheSet(nqCache, key, RankOutput(r.results, 12),
                                         CacheTtl, 0)
             /\ nqPc' = IF candidates # <<>> /\ r.raised THEN "raised" ELSE "fast"
    /\ UNCHANGED <<nqStore, nqText, nqShown>>
    /\ UNCHANGED notNl

\* if not personas: personas = await _search.search_by_description(query, llm,
\* k_fts=50, top_k=15)
NqLegacy ==
    /\ nqPc = "fast"
    /\ nqPersonas = <<>>
    /\ \E mapO \in MapOutcomes, rankO \in [Profiles -> ScoreOutcomes] :
       \E query \in {Strip(nqText)} :
       \E key \in {SearchKey("nl", query, 50, 15)},
          first \in {fts_candidates(nqStore, query, 50)},
          m \in {map_description_to_filters(nqStore, mapO)} :
         IF first = <<>> /\ m.raised
         THEN /\ nqPc' = "raised"
              /\ UNCHANGED <<nqCache, nqPersonas>>
         ELSE
           \E candidates \in {IF first = <<>> THEN legacy_fallback(nqStore, m.mapped, 50)
                              ELSE first} :
           \E r \in {RankScored(candidates,
                         [i \in 1..Len(candidates) |-> rankO[candidates[i]]])} :
           \E res \in {IF candidates = <<>> THEN <<>>
                       ELSE RankedOrCandidates(RankOutput(r.results, 15), candidates, 15)} :
             /\ nqPersonas' = IF candidates # <<>> /\ r.raised THEN <<>> ELSE res
             /\ nqCache' = IF candidates # <<>> /\ r.raised THEN nqCache
                           ELSE CacheSet(nqCache, key, res, CacheTtl, 0)
             /\ nqPc' = IF candidates # <<>> /\ r.raised THEN "raised" ELSE "searched"
    /\ UNCHANGED <<nqStore, nqText, nqEmptied, nqShown>>
    /\ UNCHANGED notNl

\* the answer: 'nothing found', the five examples, or the candidate list
NqAnswer ==
    /\ \/ nqPc = "fast" /\ nqPersonas # <<>>
       \/ nqPc = "searched"
    /\ nqShown' = IF Len(nqPersonas) >= PreviewFrom
                  THEN SubSeq(nqPersonas, 1, PreviewLen) ELSE nqPersonas
    /\ nqPc' = IF nqPersonas = <<>> THEN "empty"
               ELSE IF Len(nqPersonas) >= PreviewFrom THEN "preview" ELSE "candidates"
    /\ UNCHANGED <<nqStore, nqText, nqCache, nqEmptied, nqPersonas>>
    /\ UNCHANGED notNl

NextNl == NqFast \/ NqLegacy \/ NqAnswer

SpecNl == InitNl /\ [][NextNl]_vars

(***************************************************************************)
(* TTLCache under concurrent searches, one step per statement: every task  *)
(* does get(key), on a miss awaits the store and the scoring client, then  *)
(* set(key)                                                                *)
(***************************************************************************)

\* tasks that search concurrently
NumTasks == 2

Tasks == 1..NumTasks

\* the clock of this specification stops here
MaxLockTime == 2

\* ttl_s of the entries written, in clock steps
LockTtl == 1

LockKeys == {"k1", "k2"}

\* an entry that was in the store before the tasks started
OldEntry == [expire_at |-> 0, value |-> 0]

\* (a variant: the lock admits everybody)
LockIgnored(owner) == TRUE

\* async with self._lock: entered when no task holds the lock
LockFree(owner) == owner = 0

InitLock ==
    /\ CacheIdle /\ GateIdle /\ HandlerIdle /\ FtsIdle /\ TagIdle /\ RankIdle /\ SearchIdle /\ MapIdle /\ SelIdle /\ DialogIdle /\ BatchIdle /\ NlIdle /\ LiveIdle /\ InferIdle /\ KeyIdle
    /\ lkStore \in {EmptyMap} \cup {[k \in {key} |-> OldEntry] : key \in LockKeys}
    /\ lkOwner = 0
    /\ lkPc = [t \in Tasks |-> "get_wait"]
    /\ lkKey \in [Tasks -> LockKeys]
    /\ lkEntry = [t \in Tasks |-> None]
    /\ lkNow \in {0, 1}
    /\ lkLost = FALSE

\* time passes
LkTick ==
    /\ lkNow < MaxLockTime
    /\ lkNow' = lkNow + 1
    /\ UNCHANGED <<lkStore, lkOwner, lkPc, lkKey, lkEntry, lkLost>>
    /\ UNCHANGED notLock

\* async with self._lock (of get or of set)
LkAcquire(t) ==
    /\ lkPc[t] \in {"get_wait", "set_wait"}
    /\ LockFree(lkOwner)
    /\ lkOwner' = t
    /\ lkPc' = [lkPc EXCEPT ![t] = IF lkPc[t] = "get_wait" THEN "get_lookup" ELSE "set_write"]
    /\ UNCHANGED <<lkStore, lkKey, lkEntry, lkNow, lkLost>>
    /\ UNCHANGED notLock

\* entry = self._store.get(key); if not entry: return None
LkLookup(t) ==
    /\ lkPc[t] = "get_lookup"
    /\ IF lkKey[t] \in DOMAIN lkStore
       THEN /\ lkEntry' = [lkEntry EXCEPT ![t] = lkStore[lkKey[t]]]
            /\ lkPc' = [lkPc EXCEPT ![t] = "get_check"]
       ELSE /\ lkEntry' = lkEntry
            /\ lkPc' = [lkPc EXCEPT ![t] = "get_miss"]
    /\ UNCHANGED <<lkStore, lkOwner, lkKey, lkNow, lkLost>>
    /\ UNCHANGED notLock

\* if entry.expire_at < time.time(): ... else return entry.value
LkCheck(t) ==
    /\ lkPc[t] = "get_check"
    /\ lkPc' = [lkPc EXCEPT ![t] = IF CacheExpired(lkEntry[t], lkNow) THEN "get_evict"
                                   ELSE "get_hit"]
    /\ UNCHANGED <<lkStore, lkOwner, lkKey, lkEntry, lkNow, lkLost>>
    /\ UNCHANGED notLock

\* self._store.pop(key, None); return None
LkEvict(t) ==
    /\ lkPc[t] = "get_evict"
    /\ lkStore' = [k \in DOMAIN lkStore \ {lkKey[t]} |-> lkStore[k]]
    /\ lkLost' = (lkLost \/ (lkKey[t] \in DOMAIN lkStore /\ lkStore[lkKey[t]] # lkEntry[t]))
    /\ lkPc' = [lkPc EXCEPT ![t] = "get_miss"]
    /\ UNCHANGED <<lkOwner, lkKey, lkEntry, lkNow>>
    /\ UNCHANGED notLock

\* the end of the async with block: the lock is released; after a hit the
\* search returns, after a miss it goes on to the store and the scoring
\* client, after set it returns
LkRelease(t) ==
    /\ lkPc[t] \in {"get_miss", "get_hit", "set_exit"}
    /\ lkOwner' = 0
    /\ lkPc' = [lkPc EXCEPT ![t] = IF lkPc[t] = "get_miss" THEN "io" ELSE "done"]
    /\ UNCHANGED <<lkStore, lkKey, lkEntry, lkNow, lkLost>>
    /\ UNCHANGED notLock

\* the awaits between get and set: fts_candidates, the mapper, the ranking
LkSearched(t) ==
    /\ lkPc[t] = "io"
    /\ lkPc' = [lkPc EXCEPT ![t] = "set_wait"]
    /\ UNCHANGED <<lkStore, lkOwner, lkKey, lkEntry, lkNow, lkLost>>
    /\ UNCHANGED notLock

\* self._store[key] = TTLCacheEntry(expire_at=time.time() + ttl_s, value=value)
LkWrite(t) ==
    /\ lkPc[t] = "set_write"
    /\ lkStore' = CacheSet(lkStore, lkKey[t], t, LockTtl, lkNow)
    /\ lkPc' = [lkPc EXCEPT ![t] = "set_exit"]
    /\ UNCHANGED <<lkOwner, lkKey, lkEntry, lkNow, lkLost>>
    /\ UNCHANGED notLock

\* the task's next search of the same description
LkAgain(t) ==
    /\ lkPc[t] = "done"
    /\ lkPc' = [lkPc EXCEPT ![t] = "get_wait"]
    /\ lkEntry' = [lkEntry EXCEPT ![t] = None]
    /\ UNCHANGED <<lkStore, lkOwner, lkKey, lkNow, lkLost>>
    /\ UNCHANGED notLock

NextLock ==
    \/ LkTick
    \/ \E t \in Tasks : LkAcquire(t)
    \/ \E t \in Tasks : LkLookup(t)
    \/ \E t \in Tasks : LkCheck(t)
    \/ \E t \in Tasks : LkEvict(t)
    \/ \E t \in Tasks : LkRelease(t)
    \/ \E t \in Tasks : LkSearched(t)
    \/ \E t \in Tasks : LkWrite(t)
    \/ \E t \in Tasks : LkAgain(t)

SpecLock == InitLock /\ [][NextLock]_vars

(***************************************************************************)
(* Progress of search_by_description_fast: lexical retrieval in a worker   *)
(* thread, then one scoring call per candidate through the gate, one       *)
(* search after the other on the event loop's executor. The scoring calls  *)
(* run the same code: one of them is observed, the others are counted by   *)
(* the place where they stand                                              *)
(***************************************************************************)

\* the candidates of a search besides the observed one: as many as the gate
\* admits, so that one call has to wait
OtherCalls == max_concurrency

\* searches made one after the other
LiveSearches == 2

\* where a scoring call stands: not started, at the semaphore, inside the with
\* block with its request queued in the executor, inside with a thread
\* executing the request, out of chat, out by the timeout while the thread
\* still executes the request
Places == {"idle", "waiting", "submitted", "running", "left", "hung"}

Who == {"mine", "other"}

\* the calls that stand at a place
AtPlace(pl) == lvOthers[pl] + (IF lvMine = pl THEN 1 ELSE 0)

\* worker threads of the executor that are taken
BusyWorkers ==
    AtPlace("running") + AtPlace("hung") + lvStale + (IF lvPc = "fts_run" THEN 1 ELSE 0)

\* a call goes from one place to another
Move(who, from, to) ==
    IF who = "mine"
    THEN /\ lvMine = from
         /\ lvMine' = to
         /\ UNCHANGED lvOthers
    ELSE /\ lvOthers[from] > 0
         /\ lvOthers' = [lvOthers EXCEPT ![from] = @ - 1, ![to] = @ + 1]
         /\ UNCHANGED lvMine

InitLive ==
    /\ CacheIdle /\ GateIdle /\ HandlerIdle /\ FtsIdle /\ TagIdle /\ RankIdle /\ SearchIdle /\ MapIdle /\ SelIdle /\ DialogIdle /\ BatchIdle /\ NlIdle /\ LockIdle /\ InferIdle /\ KeyIdle
    /\ lvPc = "fts_wait"
    /\ lvRound = 1
    /\ lvMine = "idle"
    /\ lvOthers = [pl \in Places |-> IF pl = "idle" THEN OtherCalls ELSE 0]
    /\ lvPermits = max_concurrency
    /\ lvStale = 0

\* await asyncio.to_thread(fts_sync, query, k): a free worker thread takes it
LvFtsStart ==
    /\ lvPc = "fts_wait"
    /\ BusyWorkers < PoolWorkers
    /\ lvPc' = "fts_run"
    /\ UNCHANGED <<lvRound, lvMine, lvOthers, lvPermits, lvStale>>
    /\ UNCHANGED notLive

\* the store answers; _rerank_async starts a score coroutine per candidate
\* and each reaches the semaphore of chat
LvFtsEnd ==
    /\ lvPc = "fts_run"
    /\ lvPc' = "rank"
    /\ lvMine' = "waiting"
    /\ lvOthers' = [pl \in Places |-> IF pl = "waiting" THEN OtherCalls ELSE 0]
    /\ UNCHANGED <<lvRound, lvPermits, lvStale>>
    /\ UNCHANGED notLive

\* async with self._semaphore
LvAcquire(who) ==
    /\ lvPermits > 0
    /\ Move(who, "waiting", "submitted")
    /\ lvPermits' = lvPermits - 1
    /\ UNCHANGED <<lvPc, lvRound, lvStale>>
    /\ UNCHANGED notLive

\* a free worker thread starts self._client.chat
LvThreadStart(who) ==
    /\ BusyWorkers < PoolWorkers
    /\ Move(who, "submitted", "running")
    /\ UNCHANGED <<lvPc, lvRound, lvPermits, lvStale>>
    /\ UNCHANGED notLive

\* the upstream service answers or fails in time
LvFinish(who) ==
    /\ Move(who, "running", "left")
    /\ lvPermits' = lvPermits + 1
    /\ UNCHANGED <<lvPc, lvRound, lvStale>>
    /\ UNCHANGED notLive

\* (a variant: wait_for without a timeout)
LvNoTimeout(who) ==
    /\ FALSE
    /\ UNCHANGED vars

\* asyncio.wait_for(..., timeout=self.timeout_s) gives up: TimeoutError leaves
\* the with block, the permit is released, score returns 0.0; a request still
\* queued is dropped, one that a thread is executing runs on
LvTimeout(who) ==
    /\ \/ Move(who, "submitted", "left")
       \/ Move(who, "running", "hung")
    /\ lvPermits' = lvPermits + 1
    /\ UNCHANGED <<lvPc, lvRound, lvStale>>
    /\ UNCHANGED notLive

\* the request of a call that timed out ends: the HTTP client of LLMClient
\* gives up
LvThreadEnd(who) ==
    /\ Move(who, "hung", "left")
    /\ UNCHANGED <<lvPc, lvRound, lvPermits, lvStale>>
    /\ UNCHANGED notLive

\* the same for a request of an earlier search
LvStaleEnd ==
    /\ lvStale > 0
    /\ lvStale' = lvStale - 1
    /\ UNCHANGED <<lvPc, lvRound, lvMine, lvOthers, lvPermits>>
    /\ UNCHANGED notLive

\* gather has every score: sort, cut, cache write, return ranked
LvReturn ==
    /\ lvPc = "rank"
    /\ AtPlace("left") + AtPlace("hung") = OtherCalls + 1
    /\ lvPc' = "returned"
    /\ UNCHANGED <<lvRound, lvMine, lvOthers, lvPermits, lvStale>>
    /\ UNCHANGED notLive

\* the next message: nl_query builds a new AsyncLLMClient and searches again
\* on the same executor
LvNextSearch ==
    /\ lvPc = "returned"
    /\ lvRound < LiveSearches
    /\ lvRound' = lvRound + 1
    /\ lvPc' = "fts_wait"
    /\ lvStale' = lvStale + AtPlace("hung")
    /\ lvMine' = "idle"
    /\ lvOthers' = [pl \in Places |-> IF pl = "idle" THEN OtherCalls ELSE 0]
    /\ lvPermits' = max_concurrency
    /\ UNCHANGED notLive

NextLive ==
    \/ LvFtsStart
    \/ LvFtsEnd
    \/ \E who \in Who : LvAcquire(who)
    \/ \E who \in Who : LvThreadStart(who)
    \/ \E who \in Who : LvFinish(who)
    \/ \E who \in Who : LvTimeout(who)
    \/ \E who \in Who : LvThreadEnd(who)
    \/ LvStaleEnd
    \/ LvReturn
    \/ LvNextSearch

\* the event loop runs every task that can run, the timeout of wait_for is
\* finite and so is the timeout of the HTTP client; the upstream service owes
\* nothing (no fairness for LvFinish)
LiveFairness ==
    /\ WF_vars(LvFtsStart)
    /\ WF_vars(LvFtsEnd)
    /\ \A who \in Who : WF_vars(LvAcquire(who))
    /\ \A who \in Who : WF_vars(LvThreadStart(who))
    /\ \A who \in Who : WF_vars(LvTimeout(who))
    /\ \A who \in Who : WF_vars(LvThreadEnd(who))
    /\ WF_vars(LvStaleEnd)
    /\ WF_vars(LvReturn)

SpecLive == InitLive /\ [][NextLive]_vars /\ LiveFairness

(***************************************************************************)
(* _infer_hard_filters on queries made of cue words and other words        *)
(***************************************************************************)

\* words of a query
MaxWords == 2

\* the words the queries are made of: a female cue, male cues (one of them
\* holds the age cue 'yun'), age cues, a word that is no cue
QueryWords ==
    {<<"d", "e", "v", "u", "s", "h", "k", "i">>, <<"p", "a", "r", "n", "i">>,
     <<"P", "A", "R", "N">>, <<"y", "u", "n", "o", "s", "h", "a">>,
     <<"m", "o", "l", "o", "d">>, <<"v", "z", "r", "o", "s", "l">>,
     <<"p", "o", "d", "r", "o", "s", "t">>, <<"k", "o", "t">>}

\* " ".join(words)
RECURSIVE JoinWords(_)
JoinWords(ws) ==
    IF ws = <<>> THEN <<>>
    ELSE IF Len(ws) = 1 THEN ws[1]
    ELSE ws[1] \o <<" ">> \o JoinWords(Tail(ws))

InferQueries ==
    {JoinWords(ws) : ws \in UNION {[1..n -> QueryWords] : n \in 0..MaxWords}}

InitInfer ==
    /\ CacheIdle /\ GateIdle /\ HandlerIdle /\ FtsIdle /\ TagIdle /\ RankIdle /\ SearchIdle /\ MapIdle /\ SelIdle /\ DialogIdle /\ BatchIdle /\ NlIdle /\ LockIdle /\ LiveIdle /\ KeyIdle
    /\ ihQuery \in InferQueries
    /\ ihDone = FALSE
    /\ ihRes = <<>>

\* hard = self._infer_hard_filters(query)
InferCall ==
    /\ ~ihDone
    /\ ihRes' = infer_hard_filters(ihQuery)
    /\ ihDone' = TRUE
    /\ UNCHANGED ihQuery
    /\ UNCHANGED notInfer

NextInfer == InferCall

SpecInfer == InitInfer /\ [][NextInfer]_vars

(***************************************************************************)
(* The cache keys of PersonaSearchService, as the strings the f-strings    *)
(* build                                                                   *)
(***************************************************************************)

\* longest query of a keyed call
MaxKeyLen == 2

\* the characters of those queries: a letter in both cases, a blank, the
\* separator of the key, a digit
KeyChars == {"b", "B", " ", ":", "1"}

KeyQueries == UNION {[1..n -> KeyChars] : n \in 0..MaxKeyLen}

\* (k_fts, top_k)
KeyArgs == {<<1, 1>>, <<1, 11>>, <<11, 1>>, <<40, 12>>}

\* the calls that use the cache: the two description searches and the
\* catalogue of tags, which takes no argument
KeyCalls ==
    {[op |-> o, query |-> q, k_fts |-> a[1], top_k |-> a[2]] :
        o \in {"fast", "legacy"}, q \in KeyQueries, a \in KeyArgs}
    \cup {[op |-> "tags", query |-> <<>>, k_fts |-> 0, top_k |-> 0]}

\* (a variant: the query goes into the key as it is)
cache_key_raw(call) ==
    IF call.op = "tags" THEN <<"t", "a", "g", "s", "_", "c", "a", "t", "a", "l", "o", "g">>
    ELSE (IF call.op = "fast" THEN <<"n", "l", "2">> ELSE <<"n", "l">>)
         \o <<":">> \o call.query
         \o <<":">> \o StrOfInt(call.k_fts) \o <<":">> \o StrOfInt(call.top_k)

\* key = f"nl2:{query.strip().lower()}:{k_fts}:{top_k}", f"nl:...", "tags_catalog"
cache_key(call) ==
    IF call.op = "tags" THEN <<"t", "a", "g", "s", "_", "c", "a", "t", "a", "l", "o", "g">>
    ELSE (IF call.op = "fast" THEN <<"n", "l", "2">> ELSE <<"n", "l">>)
         \o <<":">> \o Lower(Strip(call.query))
         \o <<":">> \o StrOfInt(call.k_fts) \o <<":">> \o StrOfInt(call.top_k)

InitKey ==
    /\ CacheIdle /\ GateIdle /\ HandlerIdle /\ FtsIdle /\ TagIdle /\ RankIdle /\ SearchIdle /\ MapIdle /\ SelIdle /\ DialogIdle /\ BatchIdle /\ NlIdle /\ LockIdle /\ LiveIdle /\ InferIdle
    /\ kyCall \in KeyCalls
    /\ kyDone = FALSE
    /\ kyKey = <<>>

\* the first statement of search_by_description_fast, search_by_description
\* and tags_catalog
KeyBuild ==
    /\ ~kyDone
    /\ kyKey' = cache_key(kyCall)
    /\ kyDone' = TRUE
    /\ UNCHANGED kyCall
    /\ UNCHANGED notKey

NextKey == KeyBuild

SpecKey == InitKey /\ [][NextKey]_vars

(***************************************************************************)
(* Claims                                                                  *)
(***************************************************************************)

\* C1: get returns the stored value only when the entry's expire_at is strictly
\* later than the clock reading of the get; an entry with expire_at <= now (such
\* as one written by set(key, v, ttl=0) at the same reading) is removed and the
\* get reports a miss.
C1_GetOnlyIfStrictlyLater ==
    (lastOp.op = "get" /\ lastOp.found) =>
        IF lastOp.expire_at > lastOp.at
        THEN lastOp.ret # None /\ lastOp.key \in DOMAIN cache
        ELSE lastOp.ret = None /\ lastOp.key \notin DOMAIN cache

\* C3: for one AsyncLLMClient, the number of upstream completion requests that
\* have started and have not yet finished executing never exceeds
\* max_concurrency, a request whose caller timed out counting until it ends.
C3_UpstreamBounded == Cardinality(Executing) <= max_concurrency

\* C4: every upstream completion call made for a description search (the mapping
\* call and every ranking call, of the fast and of the legacy search, of all
\* searches running in the process) holds a permit of one and the same
\* semaphore and runs under the timeout wrapper.
C4_AllCallsThroughOneGate ==
    \A u \in upstream : u.kind \in {"map", "rank"} =>
        /\ u.sem # NoSem
        /\ u.timed
        /\ \A v \in upstream : v.kind \in {"map", "rank"} => v.sem = u.sem


\* a non-empty run of letters and digits followed by "*", then either the end
\* or " OR " and another such query
RECURSIVE IsOrQuery(_)
IsOrQuery(s) ==
    LET stops == {i \in 1..Len(s) : s[i] \notin Letters \cup Digits}
        j == IF stops = {} THEN 0 ELSE CHOOSE i \in stops : \A k \in stops : i <= k
    IN  /\ j > 1
        /\ s[j] = "*"
        /\ \/ j = Len(s)
           \/ /\ Len(s) >= j + 5
              /\ SubSeq(s, j + 1, j + 4) = <<" ", "O", "R", " ">>
              /\ IsOrQuery(SubSeq(s, j + 5, Len(s)))

\* C10: for every input string fts_sanitize_query returns the empty string or
\* one or more tokens joined by " OR ", each a non-empty run of letters and
\* digits followed by "*": no punctuation character of the input survives.
C10_SafeQueryWellFormed ==
    ftsDone => (ftsSafe = <<>> \/ IsOrQuery(ftsSafe))


\* the profiles that satisfy a criteria, in terms of sets of pairs
Satisfies(tags, cr) ==
    /\ PairsOf(cr.include_all) \subseteq tags
    /\ PairsOf(cr.include_any) # {} => PairsOf(cr.include_any) \cap tags # {}
    /\ PairsOf(cr.exclude) \cap tags = {}

Elems(seq) == {seq[i] : i \in 1..Len(seq)}

\* C9: search_personas_advanced returns only profiles that have every
\* include_all pair, at least one pair of the flat set of include_any pairs when
\* that set is not empty, and no exclude pair; all of them when there are at
\* most limit, exactly limit of them otherwise; an empty section constrains
\* nothing.
C9_TagSearchExact ==
    tgDone =>
        LET sat == {p \in Profiles : Satisfies(tgStore[p], tgCrit)}
        IN  /\ Elems(tgResult) \subseteq sat
            /\ Cardinality(Elems(tgResult)) = Len(tgResult)
            /\ IF Cardinality(sat) <= tgCrit.limit
               THEN Elems(tgResult) = sat
               ELSE Len(tgResult) = tgCrit.limit

\* a flat OR over two categories admits a profile that has only one of the
\* pairs, and a limit below the number of matches cuts the result
C9_Witness ==
    /\ tgDone
    /\ PairsOf(tgCrit.include_any) = {<<"gender", "female">>, <<"age", "18-24">>}
    /\ \E p \in Elems(tgResult) : tgStore[p] = {<<"age", "18-24">>}
    /\ Len(tgResult) = tgCrit.limit
    /\ Cardinality({p \in Profiles : Satisfies(tgStore[p], tgCrit)}) > tgCrit.limit


\* replies that are no number: float raises ValueError on them (it reads "nan")
NonNumericTexts == {<<"n", "o">>}

\* the scoring call failed or its reply is no number
Failed(o) == o.kind \in {"error", "timeout"} \/ (o.kind = "text" /\ o.txt \in NonNumericTexts)

\* the scoring call succeeded and its reply is a number
Numeric(o) == o.kind = "text" /\ o.txt \notin NonNumericTexts

PosIn(seq, x) == CHOOSE i \in 1..Len(seq) : seq[i] = x

\* the score the ranker gave candidate c
ScoreGiven(c) == (CHOOSE pr \in Elems(rkScored) : pr[2] = c)[1]

NumberScore(c) == ScoreGiven(c) # NaN

\* C7: a candidate whose scoring call timed out is in the list the ranker
\* returns, behind every candidate that got its score from a successful call.
\* Stated in the form that the cut at top_k and a tie at 0.0 cannot break: the
\* candidate is scored 0.0, is returned when top_k is at least the number of
\* candidates, and where it is returned every candidate whose successful call
\* gave a number above 0.0 is returned too and stands before it.
C7_TimedOutBehindPositive ==
    rkDone =>
        \A i \in 1..Len(rkInput) : rkReply[i].kind = "timeout" =>
            /\ <<0, rkInput[i]>> \in Elems(rkScored)
            /\ rkTopK >= Len(rkInput) => rkInput[i] \in Elems(rkOutput)
            /\ rkInput[i] \in Elems(rkOutput) =>
                \A j \in 1..Len(rkInput) :
                    (Numeric(rkReply[j]) /\ NumberScore(rkInput[j])
                        /\ ScoreGiven(rkInput[j]) > 0) =>
                        /\ rkInput[j] \in Elems(rkOutput)
                        /\ PosIn(rkOutput, rkInput[j]) < PosIn(rkOutput, rkInput[i])

\* a stands before b in the descending order that keeps the input order of
\* equal scores
RanksBefore(a, b) ==
    \/ ScoreGiven(a) > ScoreGiven(b)
    \/ ScoreGiven(a) = ScoreGiven(b) /\ PosIn(rkInput, a) < PosIn(rkInput, b)

\* C8: the ranker's output is the first min(top_k, n) of its n candidates in
\* descending order of score, candidates of equal score in their input order;
\* it holds no candidate twice and none that was not given. The order is
\* asked of the candidates whose score is a number: two returned ones stand in
\* that order, and none that was cut ranks before a returned one.
C8_StableDescendingTopK ==
    (rkDone /\ ~rkRaised) =>
        /\ Len(rkOutput) = Min(rkTopK, Len(rkInput))
        /\ Elems(rkOutput) \subseteq Elems(rkInput)
        /\ \A i, j \in 1..Len(rkOutput) :
            i < j =>
                /\ rkOutput[i] # rkOutput[j]
                /\ (NumberScore(rkOutput[i]) /\ NumberScore(rkOutput[j])) =>
                        RanksBefore(rkOutput[i], rkOutput[j])
        /\ \A c \in Elems(rkInput) \ Elems(rkOutput) :
            \A o \in Elems(rkOutput) :
                (NumberScore(c) /\ NumberScore(o)) => RanksBefore(o, c)

\* (C8, the part that holds) when no score is nan the output is in descending
\* order of score, equal scores in input order, and nothing cut ranks before
\* what is returned
StableDescendingIfNumbers ==
    (rkDone /\ ~rkRaised /\ \A c \in Elems(rkInput) : NumberScore(c)) =>
        /\ \A i, j \in 1..Len(rkOutput) :
            i < j => RanksBefore(rkOutput[i], rkOutput[j])
        /\ \A c \in Elems(rkInput) \ Elems(rkOutput) :
            \A o \in Elems(rkOutput) : RanksBefore(o, c)


\* C2: once a description search (fast or legacy) has returned, a later search
\* on the same service with the same arguments before the TTL has elapsed
\* returns the same result and issues no scoring-client call, neither mapping
\* nor ranking, whatever the first result was.
C2_RepeatServedFromCache ==
    (svLast.done /\ svLast.repeat) =>
        /\ ~svLast.raised
        /\ svLast.result = svFirst.result
        /\ svLast.mapCalls = 0
        /\ svLast.rankCalls = 0

\* C5: when the mapping call of search_by_description_fast times out or
\* fails, the mapper yields the empty mapping and the search returns a list:
\* nothing the mapping call raised reaches the caller.
C5_MapperFailureGivesEmptyMapping ==
    (svLast.done /\ svLast.op = "fast" /\ svLast.mapKind \in {"timeout", "error"}) =>
        /\ svLast.mapReturned
        /\ svLast.mapped = EmptyMapping
        /\ ~svLast.raised


C12_MappedTagsWithinTaxonomy ==
    (mpDone /\ ~mpRaised) =>
        /\ \A c \in Categories : \A v \in mpOut.tags[c] :
                <<c, v>> \in db_taxonomy(mpStore)
        /\ \A c \in Categories : c \in mpOut.tagCats <=> mpOut.tags[c] # {}

\* the reply proposes female and robot under gender, the taxonomy knows female
C12_Witness ==
    /\ mpDone /\ ~mpRaised
    /\ [cat |-> "gender", val |-> "robot", as |-> "str"] \in mpReply.tags
    /\ [cat |-> "gender", val |-> "female", as |-> "str"] \in mpReply.tags
    /\ mpOut.tags["gender"] = {"female"}
    /\ mpOut.tagCats = {"gender"}

\* C13: for every text the upstream model returns the mapper returns, and a
\* text that is no JSON or JSON of the wrong shape gives the empty mapping
Malformed(o) ==
    \/ o.kind = "text"
    \/ o.top # "object"
    \/ o.tagsShape \notin {"absent", "object"}
    \/ o.keywords.shape \notin {"absent", "list"}
    \/ o.alt_queries.shape \notin {"absent", "list"}

C13_MalformedReplyGivesEmptyMapping ==
    (mpDone /\ mpReply.kind \in {"text", "json"}) =>
        /\ ~mpRaised
        /\ Malformed(mpReply) => mpOut = EmptyMapping

\* a digit string that is the decimal writing of a number
IsIndex(t) == t # <<>> /\ (\A i \in 1..Len(t) : IsDigit(t[i])) /\ StrOfInt(IntVal(t)) = t

\* a-b with a hyphen or an en dash
IsRange(t) ==
    \E i \in 1..Len(t) :
        /\ t[i] \in {"-", EnDash}
        /\ IsIndex(SubSeq(t, 1, i - 1))
        /\ IsIndex(SubSeq(t, i + 1, Len(t)))

\* the reply is made only of indices and ranges between commas or semicolons
IndexReply(text) ==
    /\ text # <<>>
    /\ LET toks == SplitComma(text, <<>>, <<>>)
       IN  \A i \in 1..Len(toks) : IsIndex(toks[i]) \/ IsRange(toks[i])

\* the indices a token names that lie in 1..n, ascending
NamedBy(t, n) ==
    IF IsIndex(t) THEN {IntVal(t)} \cap (1..n)
    ELSE LET i == CHOOSE k \in 1..Len(t) : t[k] \in {"-", EnDash}
         IN  {k \in 1..n : /\ IntVal(SubSeq(t, 1, i - 1)) <= k
                           /\ k <= IntVal(SubSeq(t, i + 1, Len(t)))}

\* sel is the named indices in first-mention order, none twice
IsNamedSelection(sel, text, n) ==
    LET toks == SplitComma(text, <<>>, <<>>)
        named == UNION {NamedBy(toks[i], n) : i \in 1..Len(toks)}
        first(k) == CHOOSE i \in 1..Len(toks) :
                        k \in NamedBy(toks[i], n) /\ \A j \in 1..(i - 1) : k \notin NamedBy(toks[j], n)
    IN  /\ {sel[i] : i \in 1..Len(sel)} = named
        /\ Len(sel) = Cardinality(named)
        /\ \A i, j \in 1..Len(sel) :
            i < j => \/ first(sel[i]) < first(sel[j])
                     \/ first(sel[i]) = first(sel[j]) /\ sel[i] < sel[j]

\* C14: for a reply made only of indices and ranges the selection is exactly
\* the candidates at the named indices within 1..n, ranges expanded, in
\* first-mention order, no profile twice, and the selector does not raise
C14_IndicesAndRangesSelectExactly ==
    (slDone /\ IndexReply(slText)) =>
        /\ ~slRaised
        /\ IsNamedSelection([i \in 1..Len(slFinal) |-> slFinal[i].pid], slText,
                            Len(slPersonas))

\* C15: a reply identical to the title of a candidate selects that candidate
C15_TitleReplySelectsCandidate ==
    slDone =>
        \A i \in 1..Len(slPersonas) :
            slText = slPersonas[i].title =>
                \E j \in 1..Len(slFinal) : slFinal[j] = slPersonas[i]

C17_CandidatesOfLatestSearch ==
    [][(dgState = "nl_candidates" \/ dgState = "filter_candidates") =>
        (/\ PersonasRead = dgLast
         /\ dgState' = "chat" =>
                \A i \in 1..Len(dgChosen') :
                    \E j \in 1..Len(dgLast) : dgChosen'[i] = dgLast[j])]_vars

\* C18: in a description search the mapping call is made only when lexical
\* retrieval for the query returned nothing: a search whose query matches at
\* least one profile makes no mapping call
C18_MapperOnlyWhenLexicalEmpty ==
    (/\ svLast.done /\ ~svLast.hit
     /\ fts_candidates(svStore, svLast.query, svLast.k_fts) # <<>>) =>
        svLast.mapCalls = 0

\* C19: in the fallback path of search_by_description_fast the candidates
\* handed to the hard filter are exactly the profiles the tag search gives for
\* include_any = the mapper's tags, together with the hits of the alternate
\* queries, whatever cues the query carries
C19_FallbackIsUnionOfTagAndAltHits ==
    (/\ svLast.done /\ svLast.op = "fast" /\ ~svLast.hit /\ svLast.mapReturned) =>
        LET handed == fast_combined(svStore, infer_hard_filters(svLast.query),
                                    svLast.mapped, svLast.k_fts)
            tags == any_hits(svStore, svLast.mapped, 400)
            alts == alt_hits(svStore, svLast.mapped, svLast.k_fts)
        IN  /\ {handed[i] : i \in 1..Len(handed)}
                = {tags[i] : i \in 1..Len(tags)} \cup {alts[i] : i \in 1..Len(alts)}
            /\ \A i, j \in 1..Len(handed) : i # j => handed[i] # handed[j]

\* C20: the sort, the cut to top_k, the cache write and the return come only
\* after every scoring call of the batch has ended, and what is cached and
\* returned is the ranking of the whole batch
C20_RankingAfterWholeBatch ==
    btPc \in {"ranked", "cached", "returned"} =>
        /\ \A i \in 1..Len(btInput) : btCall[i] = "done" /\ btReply[i] \in BatchOutcomes
        /\ Len(btScored) = Len(btInput)
        /\ btRanked = RankOutput(RankScored(btInput, btReply).results, btTopK)
        /\ btCacheSet => btCached = btRanked
        /\ btPc = "returned" => btReturned = btRanked

\* three candidates, one call timed out, one failed, one replied; the ranking
\* of all three was cached and returned
C20_Witness ==
    /\ btPc = "returned"
    /\ Len(btInput) = 3
    /\ btTopK = 3
    /\ btReply[1].kind = "timeout"
    /\ btReply[2].kind = "error"
    /\ btReply[3].kind = "text"
    /\ Len(btReturned) = 3
    /\ btCached = btReturned

\* a profile meets the heuristic map of a query: for every category of the
\* map one of the profile's tag values of the category is allowed
MeetsHard(store, p, query) ==
    \A cat \in Categories :
        \/ infer_hard_filters(query)[cat] = {}
        \/ \E v \in infer_hard_filters(query)[cat] : <<cat, v>> \in store[p].tags

\* C21: every profile of a list returned by search_by_description_fast,
\* computed or served from the cache, meets the heuristic map of the query,
\* 'age' by the same rule as the other categories
C21_ReturnedProfilesMeetHardFilter ==
    (svLast.done /\ svLast.op = "fast" /\ ~svLast.raised) =>
        \A i \in 1..Len(svLast.result) : MeetsHard(svStore, svLast.result[i], svLast.query)

\* a list served from the cache for a query with an age cue
C21_Witness ==
    /\ svLast.done /\ svLast.op = "fast" /\ svLast.hit
    /\ svLast.result # <<>>
    /\ infer_hard_filters(svLast.query)["age"] = {"18-24", "15-34"}

\* C22: when the heuristic post-filter of the description search empties the
\* candidate set, the user is presented nothing
C22_EmptiedSetPresentsNothing ==
    (nqEmptied /\ nqPc \in {"empty", "preview", "candidates"}) => nqShown = <<>>

\* the statements of get and set between acquiring and releasing the lock
InsideLock == {"get_lookup", "get_check", "get_evict", "get_miss", "get_hit", "set_write",
               "set_exit"}

\* C23: the cache lock is held only inside one get or one set, never while the
\* store or the scoring client is awaited; at most one task is inside, so a
\* pop never removes an entry other than the one whose expiry it checked
C23_LockSpansOneCacheCallOnly ==
    /\ \A t \in Tasks : (lkPc[t] \in InsideLock) <=> (lkOwner = t)
    /\ \A t \in Tasks : lkPc[t] = "io" => lkOwner # t
    /\ Cardinality({t \in Tasks : lkPc[t] \in InsideLock}) <= 1
    /\ ~lkLost

\* one task is about to pop the expired entry of a key while another task,
\* back from its search, waits at the lock to set that key
C23_Witness ==
    \E t, u \in Tasks :
        /\ lkPc[t] = "get_evict"
        /\ lkPc[u] = "set_wait"
        /\ lkKey[t] = lkKey[u]

\* the entries of the keys other than k are the same before and after the step
OthersKept(k) ==
    \A j \in Keys \ {k} :
        /\ (j \in DOMAIN cache') <=> (j \in DOMAIN cache)
        /\ j \in DOMAIN cache => cache'[j] = cache[j]

\* C24: set(k, v, ttl) at time t leaves for k exactly (v, t + ttl) whatever k
\* held before; set and get on k leave the other keys as they are; an entry
\* goes away only in a get on its own key that finds it expired, never by the
\* passage of time
C24_SetOverwritesOnlyGetRemoves ==
    [][/\ (lastOp' # lastOp /\ lastOp'.op = "set") =>
            (/\ lastOp'.key \in DOMAIN cache'
             /\ cache'[lastOp'.key] = [expire_at |-> now + lastOp'.ttl_s,
                                       value |-> lastOp'.value]
             /\ OthersKept(lastOp'.key))
       /\ (lastOp' # lastOp /\ lastOp'.op = "get") =>
            (/\ OthersKept(lastOp'.key)
             /\ lastOp'.key \in DOMAIN cache' =>
                    (lastOp'.key \in DOMAIN cache /\ cache'[lastOp'.key] = cache[lastOp'.key]))
       /\ \A j \in Keys :
            (j \in DOMAIN cache /\ j \notin DOMAIN cache') =>
                (/\ lastOp' # lastOp /\ lastOp'.op = "get" /\ lastOp'.key = j
                 /\ cache[j].expire_at < now)
       /\ now' # now => cache' = cache]_vars

\* a set has just overwritten the entry of its key while the entry of another
\* key, expired, is still stored
C24_Witness ==
    /\ lastOp.op = "set" /\ lastOp.found
    /\ cache[lastOp.key] = [expire_at |-> lastOp.at + lastOp.ttl_s, value |-> lastOp.value]
    /\ \E j \in DOMAIN cache \ {lastOp.key} : cache[j].expire_at < now

\* the calls inside the with block of chat: a permit taken, not yet released
InsideGate == {c \in Calls : gSt[c] \in {"submitted", "running"}}

\* C25: the free permits and the calls inside the gate add up to
\* max_concurrency: every exit of chat (return, upstream error, timeout)
\* releases the call's permit once
C25_PermitsConserved ==
    /\ permits + Cardinality(InsideGate) = max_concurrency
    /\ permits \in 0..max_concurrency

\* calls have left chat in each of the three ways, others are inside, one waits
C25_Witness ==
    /\ \E c \in Calls : gSt[c] = "returned"
    /\ \E c \in Calls : gSt[c] = "raised"
    /\ \E c \in Calls : gSt[c] = "timedout"
    /\ Cardinality(InsideGate) = 2
    /\ permits = max_concurrency - 2

\* C26: under fair scheduling and a finite timeout a call that waits at the
\* gate gets its permit and every search returns, whether or not the
\* upstream service ever answers, with more candidates than max_concurrency
C26_SearchAlwaysEnds ==
    /\ (lvMine = "waiting") ~> (lvMine # "waiting")
    /\ (lvPc # "returned") ~> (lvPc = "returned")

\* the second search has returned although no request of it was answered: all
\* its calls left by the timeout, requests are still executing
C26_Witness ==
    /\ lvRound = 2
    /\ lvPc = "returned"
    /\ lvMine = "hung"
    /\ lvOthers["hung"] + lvOthers["left"] = OtherCalls
    /\ lvOthers["hung"] > 0

\* C27: in the chat state the stored 'chosen' list is never empty
C27_ChatHasSelection ==
    dgState = "chat" => dgChosen # <<>>

\* the lower-cased query holds one of the cues
HasCue(query, cues) == \E w \in cues : Contains(Lower(query), w)

\* C28: no cue gives the empty map; a gender constraint is emitted only when
\* the gender cues of the query are of one gender, an age constraint only
\* when an age cue is present
C28_ConstraintsOnlyOnUnambiguousCues ==
    ihDone =>
        /\ ~HasCue(ihQuery, FemaleCues \cup MaleCues \cup YoungCues \cup TeenCues \cup AdultCues)
                => ihRes = NoTags
        /\ ihRes["gender"] # {} =>
                (HasCue(ihQuery, FemaleCues) # HasCue(ihQuery, MaleCues))
        /\ ihRes["gender"] = {"female"} => HasCue(ihQuery, FemaleCues)
        /\ ihRes["gender"] = {"male"} => HasCue(ihQuery, MaleCues)
        /\ ihRes["age"] # {} => HasCue(ihQuery, YoungCues \cup TeenCues \cup AdultCues)

\* q without its leading and trailing blanks
Core(q) ==
    LET inner == {i \in 1..Len(q) : q[i] # " "}
    IN  IF inner = {} THEN <<>>
        ELSE SubSeq(q, CHOOSE i \in inner : \A j \in inner : i <= j,
                    CHOOSE i \in inner : \A j \in inner : i >= j)

\* two characters are the same letter, in whatever case, or the same character
SameLetter(c, e) == c = e \/ (c \in {"b", "B"} /\ e \in {"b", "B"})

\* two queries differ in letter case and leading or trailing blanks at most
SameUpToCaseAndBlanks(q, r) ==
    /\ Len(Core(q)) = Len(Core(r))
    /\ \A i \in 1..Len(Core(q)) : SameLetter(Core(q)[i], Core(r)[i])

\* two calls are the same operation on the same normalized query with the
\* same k_fts and top_k
SameCall(x, y) ==
    /\ x.op = y.op
    /\ SameUpToCaseAndBlanks(x.query, y.query)
    /\ x.k_fts = y.k_fts /\ x.top_k = y.top_k

\* C29: calls of the same operation whose queries differ in case and outer
\* blanks at most and whose k_fts and top_k are equal use one key; calls that
\* differ in the operation, the normalized query, k_fts or top_k never do
C29_KeyIdentifiesCall ==
    kyDone => \A other \in KeyCalls : (cache_key(other) = kyKey) <=> SameCall(kyCall, other)

\* the key of the fast search for ' B' with the default k_fts and top_k
C29_Witness ==
    /\ kyDone
    /\ kyCall = [op |-> "fast", query |-> <<" ", "B">>, k_fts |-> 40, top_k |-> 12]
    /\ kyKey = <<"n", "l", "2", ":", "b", ":", "4", "0", ":", "1", "2">>

\* the reply as choose_text_candidates reads it
ReplyText == Lower(Strip(slText))

\* no part of the reply was read as an index, a range or an ordinal, and the
\* reply holds a letter: the selection was made by _select_by_phrase_text
ByTextFallback ==
    /\ slDone /\ ~slRaised
    /\ slPersonas # <<>> /\ ReplyText # <<>>
    /\ PickAll(parts(ReplyText), Len(slPersonas)).idx = <<>>
    /\ \E i \in 1..Len(ReplyText) : IsAlpha(ReplyText[i])

\* the words of the reply of three or more characters
LongTokens == SelectSeq(SplitWords(ReplyText, <<>>, <<>>), LAMBDA t : Len(t) >= 3)

\* C30: the text fallback selects a candidate only if its title contains a
\* word of the reply of three or more characters (and all such words) or is
\* similar to the reply by 0.65 at least; a reply with letters, no such word
\* and no similar title selects nothing
C30_TextFallbackNeedsWordOrSimilarity ==
    ByTextFallback =>
        \A i \in 1..Len(slFinal) :
            \/ /\ LongTokens # <<>>
               /\ \A k \in 1..Len(LongTokens) : Contains(Lower(slFinal[i].title), LongTokens[k])
            \/ AtLeastThreshold(ratio(ReplyText, Lower(slFinal[i].title)))
====
